---- MODULE Spec2Model ----
(***************************************************************************)
(* Model of the identify-movie edge function (the identification pipeline  *)
(* of clip-to-movie-magic): URL validation, YouTube metadata aggregation   *)
(* with its oEmbed fallback, the AI ranker, the concurrent TMDB resolution *)
(* of the ranked candidates, the enrichment fetches and the response.      *)
(*                                                                         *)
(* Strings the code inspects character by character (URLs) are sequences   *)
(* of one-character strings.  Every fetch() is an external call: the       *)
(* action that runs the code up to the fetch logs it in `calls`, and a     *)
(* later action delivers its outcome, drawn from the outcomes the code     *)
(* distinguishes (ok, non-OK status, empty result, thrown exception).      *)
(***************************************************************************)
EXTENDS Integers, Sequences, FiniteSets, TLC

(***************************************************************************)
(* Bounds of the model.                                                    *)
(***************************************************************************)
\* longest candidate list the ranker returns (the prompt asks for 3)
MaxCand == 3

(***************************************************************************)
(* extractVideoId                                                          *)
(***************************************************************************)
WatchPrefix == <<"y", "o", "u", "t", "u", "b", "e", ".", "c", "o", "m", "/", "w", "a", "t", "c", "h", "?", "v", "=">>
ShortPrefix == <<"y", "o", "u", "t", "u", ".", "b", "e", "/">>
EmbedPrefix == <<"y", "o", "u", "t", "u", "b", "e", ".", "c", "o", "m", "/", "e", "m", "b", "e", "d", "/">>
VPrefix == <<"y", "o", "u", "t", "u", "b", "e", ".", "c", "o", "m", "/", "v", "/">>
ShortsPrefix == <<"y", "o", "u", "t", "u", "b", "e", ".", "c", "o", "m", "/", "s", "h", "o", "r", "t", "s", "/">>

\* the two regular expressions, each as the list of its alternative prefixes
patterns == << <<WatchPrefix, ShortPrefix, EmbedPrefix, VPrefix>>, <<ShortsPrefix>> >>

\* variant of StopChars: the group runs on over an ampersand
StopCharsWithoutAmpersand == {"\n", "?", "#"}

\* the characters the capturing group [^&\n?#]+ excludes
StopChars == {"&", "\n", "?", "#"}

\* the literal p occurs in url at position i
IsPrefixAt(url, i, p) ==
    /\ i + Len(p) - 1 <= Len(url)
    /\ \A k \in 1..Len(p) : url[i + k - 1] = p[k]

\* p occurs at i and is followed by at least one character of the group
AltMatchesAt(url, i, p) ==
    /\ IsPrefixAt(url, i, p)
    /\ i + Len(p) <= Len(url)
    /\ url[i + Len(p)] \notin StopChars

\* last position of the greedy capture that starts at j
CaptureEnd(url, j) ==
    CHOOSE e \in j..Len(url) :
        /\ \A k \in j..e : url[k] \notin StopChars
        /\ (e = Len(url) \/ url[e + 1] \in StopChars)

NotFound == [found |-> FALSE]
Found(id) == [found |-> TRUE, id |-> id]

\* url.match(pattern): leftmost position, first alternative, greedy group
RegexMatch(url, alts) ==
    LET positions == {i \in 1..Len(url) : \E a \in 1..Len(alts) : AltMatchesAt(url, i, alts[a])}
    IN  IF positions = {} THEN NotFound
        ELSE LET i == CHOOSE x \in positions : \A y \in positions : x <= y
                 a == CHOOSE x \in 1..Len(alts) :
                          /\ AltMatchesAt(url, i, alts[x])
                          /\ \A y \in 1..(x - 1) : ~AltMatchesAt(url, i, alts[y])
                 j == i + Len(alts[a])
             IN  Found(SubSeq(url, j, CaptureEnd(url, j)))

\* the loop over patterns from the n-th on: the first match is returned
RECURSIVE FirstMatch(_, _)
FirstMatch(url, n) ==
    IF n > Len(patterns) THEN NotFound
    ELSE IF RegexMatch(url, patterns[n]).found THEN RegexMatch(url, patterns[n])
    ELSE FirstMatch(url, n + 1)

extractVideoId(url) == FirstMatch(url, 1)

(***************************************************************************)
(* Requests: the JSON body of the POST, with its videoUrl field            *)
(***************************************************************************)
UrlShort == <<"h", "t", "t", "p", "s", ":", "/", "/", "y", "o", "u", "t", "u", ".", "b", "e", "/", "a", "b", "c", "1", "2", "3">>
UrlJunk == <<"n", "o", "t", " ", "a", " ", "u", "r", "l">>
UrlOther == <<"h", "t", "t", "p", "s", ":", "/", "/", "v", "i", "m", "e", "o", ".", "c", "o", "m", "/", "w", "a", "t", "c", "h", "?", "v", "=", "a", "b", "c", "1", "2", "3">>

\* a body without the field, with the empty string, and with three URLs
Requests ==
    {[hasUrl |-> FALSE, videoUrl |-> <<>>]} \cup
    {[hasUrl |-> TRUE, videoUrl |-> u] : u \in {<<>>, UrlJunk, UrlOther, UrlShort}}

\* !videoUrl: undefined and the empty string are falsy
UrlMissing(r) == ~r.hasUrl \/ r.videoUrl = <<>>

\* the secrets Deno.env.get reads
Envs == [YOUTUBE_API_KEY : BOOLEAN, LOVABLE_API_KEY : BOOLEAN, TMDB_API_KEY : BOOLEAN]

(***************************************************************************)
(* State of one invocation of the serve handler                            *)
(***************************************************************************)
VARIABLES
    env,                \* the configured secrets
    req,                \* the parsed request body
    pc,                 \* the await the handler is suspended at
    videoId,            \* const videoId
    snippet,            \* getYouTubeMetadata: videoData.items[0].snippet
    captions,           \* getYouTubeMetadata: the value of fetchCaptions
    metadata,           \* const metadata
    aiResponse,         \* identifyMoviesWithAI: what its fetch yielded
    aiResult,           \* the settlement of identifyMoviesWithAI(metadata)
    moviePromises,      \* const moviePromises, one promise per candidate
    allMatches,         \* const allMatches
    streamingProviders, \* the promise of getStreamingProviders
    similarMovies,      \* the promise of getSimilarMovies
    response,           \* the Response the handler returned
    calls,              \* every fetch() issued so far, per endpoint
    oembed,             \* getYouTubeMetadataFallback: what its fetch yielded
    captionsResponse,   \* fetchCaptions: whether its fetch yielded items
    commentsResponse,   \* fetchCommentKeywords: whether its fetch yielded items
    videoUrl,           \* extractVideoId: its argument, by its parts
    extracted,          \* extractVideoId: its return value
    comments,           \* extractKeywordsFromComments: its argument
    keywords,           \* extractKeywordsFromComments: its return value
    watchData,          \* getStreamingProviders: const data, the payload
    providerList,       \* getStreamingProviders: its return value
    state,              \* useMovieHistory: the state of one instance of the hook
    storage,            \* localStorage: the item stored under STORAGE_KEY
    now,                \* the value Date.now() returns
    op,                 \* useMovieHistory: the call made last
    mounted,            \* the state of each mounted instance of the hook
    index,              \* Index: isLoading, error and result
    urlInput,           \* UrlInput: const [url, setUrl]
    inFlight,           \* the identify-movie invocations not yet returned
    submits             \* the submit events of the form so far

vars == <<env, req, pc, videoId, snippet, captions, metadata, aiResponse, aiResult,
          moviePromises, allMatches, streamingProviders, similarMovies,
          response, calls, oembed, captionsResponse, commentsResponse,
          videoUrl, extracted, comments, keywords,
          watchData, providerList, state, storage, now, op, mounted,
          index, urlInput, inFlight, submits>>

\* the arguments and return values of the functions examined on their own
fnVars == <<videoUrl, extracted, comments, keywords, watchData, providerList>>

\* the state of the browser application
hookVars == <<state, storage, now, op, mounted>>
pageVars == <<index, urlInput, inFlight, submits>>
uiVars == <<hookVars, pageVars>>

Endpoints == {"videos", "captions", "commentThreads", "oembed", "ai",
              "search", "details", "providers", "similar"}

\* what a logged fetch() is about: 0 for the request's video, the position
\* of a candidate for search and details, a catalog id for enrichment
CallArgs == (0..MaxCand) \cup {11, 152, 438}

\* the log after one more fetch() to endpoint ep about arg
Fetch(log, ep, arg) == [log EXCEPT ![ep][arg] = @ + 1]

None == [kind |-> "none"]
NoResponse == [status |-> 0]

\* new Response(JSON.stringify({error}), {status})
ErrorResponse(st, msg) == [status |-> st, error |-> msg]

(***************************************************************************)
(* Metadata Aggregator                                                     *)
(***************************************************************************)
\* `https://img.youtube.com/vi/${videoId}/maxresdefault.jpg`
ConstructedThumbnail(id) == [kind |-> "constructed", videoId |-> id]
ThumbUrl(u) == [kind |-> "url", url |-> u]

\* snippets the videos endpoint returns; "" stands for an absent field
SnippetFull ==
    [title |-> "Epic Lightsaber Duel Scene", description |-> "A duel",
     channelTitle |-> "Clips", publishedAt |-> "2019-05-04",
     thumbnails |-> [maxres |-> "", high |-> "hq.jpg", medium |-> "mq.jpg", default |-> "d.jpg"]]
Snippets == {SnippetFull}

\* thumbnails.maxres?.url || high || medium || default || constructed
PickThumbnail(thumbnails, id) ==
    IF thumbnails.maxres # "" THEN ThumbUrl(thumbnails.maxres)
    ELSE IF thumbnails.high # "" THEN ThumbUrl(thumbnails.high)
    ELSE IF thumbnails.medium # "" THEN ThumbUrl(thumbnails.medium)
    ELSE IF thumbnails.default # "" THEN ThumbUrl(thumbnails.default)
    ELSE ConstructedThumbnail(id)

\* items.map(c => c.snippet.language).join(", ")
RECURSIVE Join(_, _)
Join(strs, sep) ==
    IF strs = <<>> THEN <<>>
    ELSE IF Len(strs) = 1 THEN <<strs[1]>>
    ELSE <<strs[1], sep>> \o Join(Tail(strs), sep)

\* language lists of the caption tracks the captions endpoint returns
CaptionTracks == {<<"en", "es">>}

\* the value of fetchCaptions for each outcome of its fetch
fetchCaptionsResult(outcome, langs) ==
    IF outcome = "ok"
    THEN [captionsAvailable |-> TRUE,
          captionsText |-> <<"[Captions available in ">> \o Join(langs, ", ") \o <<"]">>]
    ELSE [captionsAvailable |-> FALSE, captionsText |-> <<>>]

Min(a, b) == IF a <= b THEN a ELSE b

\* list.slice(0, n)
Take(list, n) == SubSeq(list, 1, Min(n, Len(list)))

(***************************************************************************)
(* Keyword Miner: extractKeywordsFromComments                              *)
(* a string is the sequence of its characters                              *)
(***************************************************************************)
LowerLetters ==
    <<"a", "b", "c", "d", "e", "f", "g", "h", "i", "j", "k", "l", "m", "n", "o", "p", "q", "r",
      "s", "t", "u", "v", "w", "x", "y", "z">>
UpperLetters ==
    <<"A", "B", "C", "D", "E", "F", "G", "H", "I", "J", "K", "L", "M", "N", "O", "P", "Q", "R",
      "S", "T", "U", "V", "W", "X", "Y", "Z">>
Digits == {"0", "1", "2", "3", "4", "5", "6", "7", "8", "9"}
Range(f) == {f[k] : k \in DOMAIN f}

\* the classes \s and \w of the patterns, as far as the texts here go
Whitespace == {" ", "\n", "\t"}
WordChars == Range(LowerLetters) \cup Range(UpperLetters) \cup Digits \cup {"_"}

\* ["'] and what the class [^"'\n.!?] excludes
Quotes == {"\"", "'"}
PhraseStops == Quotes \cup {"\n", ".", "!", "?"}

\* String.prototype.toLowerCase
toLowerCase(s) ==
    [k \in 1..Len(s) |->
        IF \E l \in 1..Len(UpperLetters) : UpperLetters[l] = s[k]
        THEN LowerLetters[CHOOSE l \in 1..Len(UpperLetters) : UpperLetters[l] = s[k]]
        ELSE s[k]]

\* where the longest run of characters of class that starts at j ends: the
\* index after its last character (j itself when the run is empty)
RunEnd(s, j, class) ==
    CHOOSE e \in j..(Len(s) + 1) :
        /\ \A k \in j..(e - 1) : s[k] \in class
        /\ (e = Len(s) + 1 \/ s[e] \notin class)

\* String.prototype.trim
trim(s) ==
    IF \A k \in 1..Len(s) : s[k] \in Whitespace THEN <<>>
    ELSE SubSeq(s, CHOOSE a \in 1..Len(s) :
                       s[a] \notin Whitespace /\ \A k \in 1..(a - 1) : s[k] \in Whitespace,
                   CHOOSE b \in 1..Len(s) :
                       s[b] \notin Whitespace /\ \A k \in (b + 1)..Len(s) : s[k] \in Whitespace)

\* comments.join(" ")
RECURSIVE JoinComments(_)
JoinComments(list) ==
    IF list = <<>> THEN <<>>
    ELSE IF Len(list) = 1 THEN list[1]
    ELSE list[1] \o <<" ">> \o JoinComments(Tail(list))

\* variant of Triggers: the first pattern lacks the alternative "this is from"
TriggersWithoutThisIsFrom ==
    <<<<"t", "h", "i", "s", " ", "m", "o", "v", "i", "e", " ", "i", "s">>,
      <<"t", "h", "e", " ", "m", "o", "v", "i", "e">>,
      <<"f", "r", "o", "m", " ", "t", "h", "e", " ", "f", "i", "l", "m">>,
      <<"s", "c", "e", "n", "e", " ", "f", "r", "o", "m">>>>

\* the alternatives of the first pattern's opening group
Triggers ==
    <<<<"t", "h", "i", "s", " ", "i", "s", " ", "f", "r", "o", "m">>,
      <<"t", "h", "i", "s", " ", "m", "o", "v", "i", "e", " ", "i", "s">>,
      <<"t", "h", "e", " ", "m", "o", "v", "i", "e">>,
      <<"f", "r", "o", "m", " ", "t", "h", "e", " ", "f", "i", "l", "m">>,
      <<"s", "c", "e", "n", "e", " ", "f", "r", "o", "m">>>>

\* the alternatives of the second pattern's closing group
Kinds ==
    <<<<"m", "o", "v", "i", "e">>,
      <<"f", "i", "l", "m">>>>

NoMatch == [found |-> FALSE]
Match(capture, next) == [found |-> TRUE, capture |-> capture, next |-> next]

\* the index after an optional quote at j
SkipQuote(s, j) == IF j <= Len(s) /\ s[j] \in Quotes THEN j + 1 ELSE j

\* a match of /(?:this is from|...)\s+["']?([^"'\n.!?]+)["']?/ that starts at
\* i: group 1 and the index after the match. \s+ and ["']? take all they
\* can; when no character is left for the group after them, \s+ gives back
\* whitespace and the group takes one blank of it
PhraseMatchAt(s, i) ==
    LET alts == {a \in 1..Len(Triggers) : IsPrefixAt(s, i, Triggers[a])}
    IN  IF alts = {} THEN NoMatch
        ELSE LET p == i + Len(Triggers[CHOOSE a \in alts : \A b \in alts : a <= b])
                 q == RunEnd(s, p, Whitespace)
                 c == SkipQuote(s, q)
                 e == RunEnd(s, c, Range(s) \ PhraseStops)
                 blanks == {k \in (p + 1)..(q - 1) : s[k] # "\n"}
             IN  IF q = p THEN NoMatch
                 ELSE IF e > c THEN Match(SubSeq(s, c, e - 1), SkipQuote(s, e))
                 ELSE IF blanks = {} THEN NoMatch
                 ELSE LET k == CHOOSE x \in blanks : \A y \in blanks : y <= x
                      IN  Match(<<s[k]>>, SkipQuote(s, k + 1))

\* a match of /["']([^"']+)["']\s+(?:movie|film)/ that starts at i
QuotedMatchAt(s, i) ==
    IF i > Len(s) \/ s[i] \notin Quotes THEN NoMatch
    ELSE LET j == RunEnd(s, i + 1, Range(s) \ Quotes)
             w == RunEnd(s, j + 1, Whitespace)
             alts == {a \in 1..Len(Kinds) : IsPrefixAt(s, w, Kinds[a])}
         IN  IF j = i + 1 \/ j > Len(s) \/ w = j + 1 \/ alts = {} THEN NoMatch
             ELSE Match(SubSeq(s, i + 1, j - 1),
                        w + Len(Kinds[CHOOSE a \in alts : \A b \in alts : a <= b]))

\* const moviePatterns
moviePatterns == <<1, 2>>
PatternMatchAt(pattern, s, i) ==
    IF pattern = 1 THEN PhraseMatchAt(s, i) ELSE QuotedMatchAt(s, i)

\* allText.matchAll(pattern): group 1 of the matches from i on, left to
\* right, each search starting where the previous match ended
RECURSIVE matchAll(_, _, _)
matchAll(pattern, s, i) ==
    LET starts == {j \in i..Len(s) : PatternMatchAt(pattern, s, j).found}
    IN  IF starts = {} THEN <<>>
        ELSE LET m == PatternMatchAt(pattern, s, CHOOSE j \in starts : \A k \in starts : j <= k)
             IN  <<m.capture>> \o matchAll(pattern, s, m.next)

\* variant of SetAdd: the keywords are pushed to an array, repeats and all
SetAddArray(set, k) == Append(set, k)

\* Set.prototype.add: a Set keeps its elements once, in insertion order
SetAdd(set, k) == IF k \in Range(set) THEN set ELSE Append(set, k)

\* the body of the loop over the matches of one pattern
RECURSIVE AddCleaned(_, _)
AddCleaned(set, captures) ==
    IF captures = <<>> THEN set
    ELSE LET cleaned == Take(trim(captures[1]), 50)
         IN  AddCleaned(IF captures[1] # <<>> /\ Len(cleaned) > 2 THEN SetAdd(set, cleaned) ELSE set,
                        Tail(captures))

\* an occurrence of [A-Z][a-z]+ at i: the index after it, 0 when there is none
CapWordEnd(s, i) ==
    IF i > Len(s) \/ s[i] \notin Range(UpperLetters) THEN 0
    ELSE LET e == RunEnd(s, i + 1, Range(LowerLetters))
         IN  IF e > i + 1 THEN e ELSE 0

\* \b at index e: exactly one of the characters before and at e is of \w
WordBoundary(s, e) ==
    ((e - 1) \in 1..Len(s) /\ s[e - 1] \in WordChars) # (e \in 1..Len(s) /\ s[e] \in WordChars)

\* (?:\s+[A-Z][a-z]+)*\b after a word that ends before e: the index after
\* the longest run of further capitalized words that ends at a word
\* boundary, 0 when not even e is at one
RECURSIVE CapRunEnd(_, _)
CapRunEnd(s, e) ==
    LET w == RunEnd(s, e, Whitespace)
        n == IF w > e THEN CapWordEnd(s, w) ELSE 0
        r == IF n = 0 THEN 0 ELSE CapRunEnd(s, n)
    IN  IF r # 0 THEN r
        ELSE IF WordBoundary(s, e) THEN e ELSE 0

\* a match of /\b([A-Z][a-z]+(?:\s+[A-Z][a-z]+)*)\b/ that starts at i: the
\* index after it, 0 when there is none
CapitalizedMatchEnd(s, i) ==
    LET w == IF WordBoundary(s, i) THEN CapWordEnd(s, i) ELSE 0
    IN  IF w = 0 THEN 0 ELSE CapRunEnd(s, w)

\* fullText.matchAll(capitalizedPattern): the matched phrases from i on
RECURSIVE capitalizedMatches(_, _)
capitalizedMatches(s, i) ==
    LET starts == {j \in i..Len(s) : CapitalizedMatchEnd(s, j) # 0}
    IN  IF starts = {} THEN <<>>
        ELSE LET j == CHOOSE x \in starts : \A y \in starts : x <= y
                 e == CapitalizedMatchEnd(s, j)
             IN  <<SubSeq(s, j, e - 1)>> \o capitalizedMatches(s, e)

commonWords ==
    {<<"T", "h", "e">>,
     <<"T", "h", "i", "s">>,
     <<"T", "h", "a", "t">>,
     <<"W", "h", "a", "t">>,
     <<"W", "h", "e", "n">>,
     <<"W", "h", "e", "r", "e">>,
     <<"H", "o", "w">>,
     <<"W", "h", "y">>,
     <<"I">>,
     <<"Y", "o", "u">>,
     <<"H", "e">>,
     <<"S", "h", "e">>,
     <<"I", "t">>,
     <<"W", "e">>,
     <<"T", "h", "e", "y">>,
     <<"A", "n", "d">>,
     <<"B", "u", "t">>,
     <<"O", "r">>}

\* the phrases the first loop counts, in the order of the text
Counted(phrases) ==
    SelectSeq(phrases, LAMBDA phrase : Len(phrase) > 3 /\ phrase \notin commonWords)

\* phraseCount.get(phrase)
phraseCount(phrases, phrase) ==
    Cardinality({k \in 1..Len(Counted(phrases)) : Counted(phrases)[k] = phrase})

\* the keys of the Map, in insertion order
RECURSIVE MapKeys(_)
MapKeys(counted) ==
    IF counted = <<>> THEN <<>>
    ELSE LET init == MapKeys(SubSeq(counted, 1, Len(counted) - 1))
         IN  IF counted[Len(counted)] \in Range(init) THEN init
             ELSE Append(init, counted[Len(counted)])

\* the second loop: the Map is walked in insertion order
RECURSIVE AddFrequent(_, _, _)
AddFrequent(set, phrases, rest) ==
    IF rest = <<>> THEN set
    ELSE AddFrequent(IF phraseCount(phrases, rest[1]) >= 2
                     THEN SetAdd(set, toLowerCase(rest[1])) ELSE set,
                     phrases, Tail(rest))

\* the keyword Set after the loop over moviePatterns
PatternKeywords(list) ==
    LET allText == toLowerCase(JoinComments(list))
    IN  AddCleaned(AddCleaned(<<>>, matchAll(moviePatterns[1], allText, 1)),
                   matchAll(moviePatterns[2], allText, 1))

\* the keyword Set before the final slice
KeywordSet(list) ==
    LET fullText == JoinComments(list)
        phrases == capitalizedMatches(fullText, 1)
    IN  AddFrequent(PatternKeywords(list), phrases, MapKeys(Counted(phrases)))

extractKeywordsFromComments(list) == Take(KeywordSet(list), 10)

\* comment texts: item.snippet.topLevelComment.snippet.textDisplay
CommentMatrix ==
    <<"T", "h", "i", "s", " ", "i", "s", " ", "f", "r", "o", "m", " ", "T", "h", "e", " ", "M",
      "a", "t", "r", "i", "x">>
CommentMatrixTwice ==
    <<"T", "h", "i", "s", " ", "i", "s", " ", "f", "r", "o", "m", " ", "T", "h", "e", " ", "M",
      "a", "t", "r", "i", "x", " ", "T", "h", "i", "s", " ", "i", "s", " ", "f", "r", "o", "m",
      " ", "T", "h", "e", " ", "M", "a", "t", "r", "i", "x">>
CommentLoveStarWars ==
    <<"I", " ", "l", "o", "v", "e", " ", "S", "t", "a", "r", " ", "W", "a", "r", "s">>
CommentStarWarsGreat ==
    <<"S", "t", "a", "r", " ", "W", "a", "r", "s", " ", "i", "s", " ", "g", "r", "e", "a", "t">>
CommentStarWarsTwice ==
    <<"t", "h", "e", " ", "m", "o", "v", "i", "e", " ", "S", "t", "a", "r", " ", "W", "a", "r",
      "s", ".", " ", "S", "t", "a", "r", " ", "W", "a", "r", "s", " ", "r", "o", "c", "k", "s">>
CommentRamble ==
    <<"t", "h", "e", " ", "m", "o", "v", "i", "e", " ", "t", "h", "a", "t", " ", "i", " ", "w",
      "a", "t", "c", "h", "e", "d", " ", "s", "o", " ", "m", "a", "n", "y", " ", "t", "i", "m",
      "e", "s", " ", "w", "h", "e", "n", " ", "i", " ", "w", "a", "s", " ", "a", " ", "k", "i",
      "d", " ", "a", "n", "d", " ", "l", "o", "v", "e", "d">>
CommentQuoted ==
    <<"'", "U", "p", "'", " ", "m", "o", "v", "i", "e", " ", "o", "r", " ", "\"", "H", "e",
      "a", "t", "\"", " ", "f", "i", "l", "m", "!", " ", "S", "a", "w", " ", "i", "t", ".",
      " ", "S", "a", "w", " ", "r", "u", "l", "e", "s">>
CommentList ==
    <<"t", "h", "e", " ", "m", "o", "v", "i", "e", " ", "a", "a", "a", ".", " ", "t", "h", "e",
      " ", "m", "o", "v", "i", "e", " ", "b", "b", "b", ".", " ", "t", "h", "e", " ", "m", "o",
      "v", "i", "e", " ", "c", "c", "c", ".", " ", "t", "h", "e", " ", "m", "o", "v", "i", "e",
      " ", "d", "d", "d", ".", " ", "t", "h", "e", " ", "m", "o", "v", "i", "e", " ", "e", "e",
      "e", ".", " ", "t", "h", "e", " ", "m", "o", "v", "i", "e", " ", "f", "f", "f", ".", " ",
      "t", "h", "e", " ", "m", "o", "v", "i", "e", " ", "g", "g", "g", ".", " ", "t", "h", "e",
      " ", "m", "o", "v", "i", "e", " ", "h", "h", "h", ".", " ", "t", "h", "e", " ", "m", "o",
      "v", "i", "e", " ", "i", "i", "i", ".", " ", "t", "h", "e", " ", "m", "o", "v", "i", "e",
      " ", "j", "j", "j", ".", " ", "t", "h", "e", " ", "m", "o", "v", "i", "e", " ", "k", "k",
      "k", ".">>

CommentPool ==
    {CommentMatrix, CommentMatrixTwice, CommentLoveStarWars, CommentStarWarsGreat,
     CommentStarWarsTwice, CommentRamble, CommentQuoted, CommentList}

\* the comments the commentThreads endpoint returns
FetchedComments == {<<CommentMatrix, CommentMatrix>>}

\* keyword lists extractKeywordsFromComments returns for the fetched comments
KeywordResults == {extractKeywordsFromComments(list) : list \in FetchedComments}

\* the value of fetchCommentKeywords for each outcome of its fetch
fetchCommentKeywordsResult(outcome, kw) ==
    IF outcome = "ok" THEN kw ELSE <<>>

\* variant of PrimaryMetadata: without captions the snippet is given up and
\* the all-empty object of the fallback is returned
PrimaryMetadataNeedsCaptions(sn, id, cap, kw) ==
    IF cap.captionsAvailable
    THEN [title |-> sn.title, description |-> sn.description,
          thumbnail |-> PickThumbnail(sn.thumbnails, id),
          channelTitle |-> sn.channelTitle, publishedAt |-> sn.publishedAt,
          captionsAvailable |-> cap.captionsAvailable, captionsText |-> cap.captionsText,
          commentKeywords |-> kw]
    ELSE [title |-> "", description |-> "",
          thumbnail |-> ConstructedThumbnail(id),
          channelTitle |-> "", publishedAt |-> "",
          captionsAvailable |-> FALSE, captionsText |-> <<>>,
          commentKeywords |-> <<>>]

\* the object getYouTubeMetadata returns on the primary path
PrimaryMetadata(sn, id, cap, kw) ==
    [title |-> sn.title, description |-> sn.description,
     thumbnail |-> PickThumbnail(sn.thumbnails, id),
     channelTitle |-> sn.channelTitle, publishedAt |-> sn.publishedAt,
     captionsAvailable |-> cap.captionsAvailable, captionsText |-> cap.captionsText,
     commentKeywords |-> kw]

\* bodies the oEmbed endpoint returns
OEmbedData == {[title |-> "Epic Lightsaber Duel Scene", author_name |-> "Clips"]}

\* variant of FallbackMetadata: the description is filled from the oEmbed
\* title when the fetch succeeds
FallbackMetadataDescribed(outcome, data, id) ==
    [title |-> IF outcome = "ok" THEN data.title ELSE "",
     description |-> IF outcome = "ok" THEN data.title ELSE "",
     thumbnail |-> ConstructedThumbnail(id),
     channelTitle |-> IF outcome = "ok" THEN data.author_name ELSE "",
     publishedAt |-> "",
     captionsAvailable |-> FALSE, captionsText |-> <<>>,
     commentKeywords |-> <<>>]

\* the object getYouTubeMetadataFallback returns for each outcome of its fetch
FallbackMetadata(outcome, data, id) ==
    [title |-> IF outcome = "ok" THEN data.title ELSE "",
     description |-> "",
     thumbnail |-> ConstructedThumbnail(id),
     channelTitle |-> IF outcome = "ok" THEN data.author_name ELSE "",
     publishedAt |-> "",
     captionsAvailable |-> FALSE, captionsText |-> <<>>,
     commentKeywords |-> <<>>]

FetchOutcomes == {"ok", "notOk", "empty", "throws"}

(***************************************************************************)
(* Candidate Ranker                                                        *)
(***************************************************************************)
\* candidates the model proposes; confidences are whatever the model says
CandA == [movieTitle |-> "Star Wars", confidence |-> 80, reasons |-> <<"Title mentions lightsaber">>]
CandB == [movieTitle |-> "Star Trek", confidence |-> 15, reasons |-> <<"Space setting">>]
CandC == [movieTitle |-> "A New Hope", confidence |-> 120, reasons |-> <<"Comments mention it">>]
CandD == [movieTitle |-> "Dune", confidence |-> 5, reasons |-> <<"Desert planet">>]
Candidates == {CandA, CandB, CandC, CandD}

Narrative == "The title and the comments point to Star Wars."

\* the lists the model returns: at most n different candidates in any
\* order, and one list that names the same candidate twice
RankedLists(S, n) ==
    {m \in UNION {[1..k -> S] : k \in 0..n} : \A i, j \in 1..Len(m) : m[i] = m[j] => i = j}
    \cup {<<CandA, CandA>>}

\* objects the model's JSON text parses to
AIJsonValues ==
    {[hasMatches |-> TRUE, matches |-> m, detailedReasoning |-> Narrative] : m \in RankedLists(Candidates, MaxCand)}
    \cup {[hasMatches |-> FALSE, matches |-> <<>>, detailedReasoning |-> Narrative]}

\* the content string, as a list of pieces: code fences, prose, JSON text
\* the opening fence (three backticks, "json", newline) and the closing one
FenceOpen == [t |-> "fence", lang |-> "json"]
FenceClose == [t |-> "fence", lang |-> ""]
Prose == [t |-> "text"]
JsonText(v) == [t |-> "json", value |-> v]
IsFence(piece) == piece.t = "fence"

\* the object the fenced and the prose-wrapped answers carry
FencedValue == [hasMatches |-> TRUE, matches |-> <<CandB>>, detailedReasoning |-> Narrative]

\* bare JSON, fenced JSON, a fence after prose, prose alone, nothing
AIContents ==
    {<<JsonText(v)>> : v \in AIJsonValues}
    \cup {<<FenceOpen, JsonText(FencedValue), FenceClose>>,
          <<Prose, FenceOpen, JsonText(FencedValue), FenceClose>>,
          <<Prose>>, <<>>}

\* what fetch() to the AI gateway yields: an HTTP response or an exception
AIResponses ==
    {[kind |-> "response", status |-> st, content |-> <<>>] : st \in {429, 402, 500}}
    \cup {[kind |-> "response", status |-> 200, content |-> c] : c \in AIContents}
    \cup {[kind |-> "throws", status |-> 0, content |-> <<>>]}

Thrown(msg) == [kind |-> "thrown", message |-> <<msg>>]

\* jsonStr: trim, then drop every fence if the text starts with one
StripFences(content) ==
    IF content # <<>> /\ IsFence(content[1])
    THEN SelectSeq(content, LAMBDA piece : ~IsFence(piece))
    ELSE content

\* JSON.parse accepts exactly one JSON text and nothing around it
Parses(jsonStr) == Len(jsonStr) = 1 /\ jsonStr[1].t = "json"

\* variant of identifyMoviesWithAI: a parse failure is swallowed and an
\* empty candidate list returned
identifyMoviesWithAILenient(r) ==
    IF r.kind = "throws" THEN Thrown("network error")
    ELSE IF r.status = 429 THEN Thrown("Rate limit exceeded. Please try again in a moment.")
    ELSE IF r.status = 402 THEN Thrown("AI service payment required. Please check your account.")
    ELSE IF r.status # 200 THEN Thrown("Failed to identify movie with AI")
    ELSE IF r.content = <<>> THEN Thrown("No response from AI")
    ELSE IF ~Parses(StripFences(r.content))
    THEN [kind |-> "ok", hasMatches |-> TRUE, matches |-> <<>>, detailedReasoning |-> ""]
    ELSE LET result == StripFences(r.content)[1].value
         IN  [kind |-> "ok", hasMatches |-> result.hasMatches, matches |-> result.matches,
              detailedReasoning |-> result.detailedReasoning]

\* variant of identifyMoviesWithAI: no branch for status 402
identifyMoviesWithAINo402(r) ==
    IF r.kind = "throws" THEN Thrown("network error")
    ELSE IF r.status = 429 THEN Thrown("Rate limit exceeded. Please try again in a moment.")
    ELSE IF r.status # 200 THEN Thrown("Failed to identify movie with AI")
    ELSE IF r.content = <<>> THEN Thrown("No response from AI")
    ELSE IF ~Parses(StripFences(r.content)) THEN Thrown("Unexpected token in JSON")
    ELSE LET result == StripFences(r.content)[1].value
         IN  [kind |-> "ok", hasMatches |-> result.hasMatches, matches |-> result.matches,
              detailedReasoning |-> result.detailedReasoning]

\* the settlement of identifyMoviesWithAI once its fetch has returned
identifyMoviesWithAI(r) ==
    IF r.kind = "throws" THEN Thrown("network error")
    ELSE IF r.status = 429 THEN Thrown("Rate limit exceeded. Please try again in a moment.")
    ELSE IF r.status = 402 THEN Thrown("AI service payment required. Please check your account.")
    ELSE IF r.status # 200 THEN Thrown("Failed to identify movie with AI")
    ELSE IF r.content = <<>> THEN Thrown("No response from AI")
    ELSE IF ~Parses(StripFences(r.content)) THEN Thrown("Unexpected token in JSON")
    ELSE LET result == StripFences(r.content)[1].value
         IN  [kind |-> "ok", hasMatches |-> result.hasMatches, matches |-> result.matches,
              detailedReasoning |-> result.detailedReasoning]

(***************************************************************************)
(* Catalog Resolver                                                        *)
(***************************************************************************)
\* id of the first result the catalog's search returns for a title
FirstSearchResult(title) ==
    IF title = "Star Trek" THEN 152
    ELSE IF title = "Dune" THEN 438
    ELSE 11

\* the detail record of a catalog id; 0 and "" stand for absent fields
Details(id) ==
    IF id = 11
    THEN [id |-> 11, title |-> "Star Wars", release_date |-> <<"1977", "05", "25">>,
          poster_path |-> "/sw.jpg", overview |-> "A farm boy.", vote_average |-> 8204,
          runtime |-> 121, genres |-> <<"Adventure", "Action">>,
          videos |-> <<[type |-> "Teaser", site |-> "YouTube", key |-> "t1"],
                       [type |-> "Trailer", site |-> "Vimeo", key |-> "t2"],
                       [type |-> "Trailer", site |-> "YouTube", key |-> "t3"]>>]
    ELSE [id |-> id, title |-> "Star Trek: The Motion Picture", release_date |-> <<>>,
          poster_path |-> "", overview |-> "", vote_average |-> 0,
          runtime |-> 0, genres |-> <<>>, videos |-> <<>>]

\* release_date.split("-")[0], or "Unknown"
YearOf(release_date) == IF release_date = <<>> THEN "Unknown" ELSE release_date[1]

\* details.videos.results.find(v => v.type === "Trailer" && v.site === "YouTube")
TrailerOf(videos) ==
    LET hits == {k \in 1..Len(videos) : videos[k].type = "Trailer" /\ videos[k].site = "YouTube"}
    IN  IF hits = {} THEN "null"
        ELSE videos[CHOOSE k \in hits : \A l \in hits : k <= l].key

\* vote_average (in thousandths) to one decimal, in tenths; 0 stands for "N/A"
RatingOf(vote_average) == (vote_average + 50) \div 100

\* the MovieResult getMovieFromTMDB builds from the detail record
MovieResult(details) ==
    [title |-> details.title,
     year |-> YearOf(details.release_date),
     poster |-> IF details.poster_path # "" THEN <<"https://image.tmdb.org/t/p/w500", details.poster_path>> ELSE <<>>,
     plot |-> IF details.overview # "" THEN details.overview ELSE "No plot available.",
     rating |-> RatingOf(details.vote_average),
     runtime |-> IF details.runtime # 0 THEN <<details.runtime, " min">> ELSE <<"Unknown">>,
     genres |-> details.genres,
     trailer |-> TrailerOf(details.videos),
     tmdbId |-> details.id,
     aiReasoning |-> ""]

\* variant of MovieMatchOf: the confidence is clamped to 1..100
MovieMatchOfClamped(match, movieData, reasoning) ==
    [movie |-> [movieData EXCEPT !.aiReasoning = reasoning],
     confidence |-> IF match.confidence > 100 THEN 100
                    ELSE IF match.confidence < 1 THEN 1 ELSE match.confidence,
     matchReasons |-> match.reasons]

\* the MovieMatch a candidate's async callback returns for a resolved movie
MovieMatchOf(match, movieData, reasoning) ==
    [movie |-> [movieData EXCEPT !.aiReasoning = reasoning],
     confidence |-> match.confidence,
     matchReasons |-> match.reasons]

\* states of one promise of moviePromises
Searching == [state |-> "search"]
FetchingDetails(id) == [state |-> "details", id |-> id]
Fulfilled(v) == [state |-> "fulfilled", value |-> v]
Rejected(msg) == [state |-> "rejected", message |-> <<msg>>]

\* variant of AfterSearch: an exception of the search fetch is swallowed
\* without settling the promise
AfterSearchSwallowsThrow(match, outcome) ==
    IF outcome = "throws" THEN [state |-> "pending"]
    ELSE IF outcome \in {"notOk", "empty"} THEN Fulfilled(None)
    ELSE FetchingDetails(FirstSearchResult(match.movieTitle))

\* the promise of candidate match once its search fetch has returned
AfterSearch(match, outcome) ==
    IF outcome = "throws" THEN Rejected("network error")
    ELSE IF outcome \in {"notOk", "empty"} THEN Fulfilled(None)
    ELSE FetchingDetails(FirstSearchResult(match.movieTitle))

\* the promise of candidate match once its details fetch has returned
AfterDetails(match, id, outcome, reasoning) ==
    IF outcome = "throws" THEN Rejected("network error")
    ELSE IF outcome = "notOk" THEN Fulfilled(None)
    ELSE Fulfilled(MovieMatchOf(match, MovieResult(Details(id)), reasoning))

\* variant of FilterResolved: survivors are put at the front (unshift), so
\* the list comes out in reverse ranker order
RECURSIVE FilterResolvedReversed(_)
FilterResolvedReversed(promises) ==
    IF promises = <<>> THEN <<>>
    ELSE IF promises[1].value = None THEN FilterResolvedReversed(Tail(promises))
    ELSE FilterResolvedReversed(Tail(promises)) \o <<promises[1].value>>

\* variant of FilterResolved: a match is dropped when an earlier match
\* already has its catalog id
RECURSIVE FilterResolvedDistinct(_)
FilterResolvedDistinct(promises) ==
    IF promises = <<>> THEN <<>>
    ELSE LET rest == FilterResolvedDistinct(SubSeq(promises, 1, Len(promises) - 1))
             last == promises[Len(promises)].value
         IN  IF last = None THEN rest
             ELSE IF \E j \in 1..Len(rest) : rest[j].movie.tmdbId = last.movie.tmdbId THEN rest
             ELSE Append(rest, last)

\* (await Promise.all(moviePromises)).filter(m => m !== null)
RECURSIVE FilterResolved(_)
FilterResolved(promises) ==
    IF promises = <<>> THEN <<>>
    ELSE IF promises[1].value = None THEN FilterResolved(Tail(promises))
    ELSE <<promises[1].value>> \o FilterResolved(Tail(promises))

(***************************************************************************)
(* Enrichment Fetchers                                                     *)
(***************************************************************************)
\* watch-provider payloads: data.results as the list of its regions, in
\* key order; an absent flatrate or rent list is the empty list
Provider(n) == [provider_name |-> n, logo_path |-> "/logo.png"]
RegionUS ==
    [region |-> "US", link |-> "https://tmdb/us",
     flatrate |-> <<Provider("Netflix"), Provider("Disney"), Provider("Netflix"), Provider("Hulu"), Provider("Max")>>,
     rent |-> <<Provider("Apple"), Provider("Netflix"), Provider("Amazon")>>]
RegionGB ==
    [region |-> "GB", link |-> "",
     flatrate |-> <<Provider("Sky")>>, rent |-> <<>>]
ProviderPayloads == {<<RegionGB, RegionUS>>}

\* variant of RegionData: the first region of the payload is taken whether
\* or not the payload has a US entry
RegionDataFirst(results) == results[1]

\* data.results?.US || Object.values(data.results || {})[0]
RegionData(results) ==
    LET us == {k \in 1..Len(results) : results[k].region = "US"}
    IN  IF us # {} THEN results[CHOOSE k \in us : TRUE] ELSE results[1]

\* variant of AddProviders: no seen set, every provider of the list is pushed
RECURSIVE AddProvidersNoSeen(_, _, _, _)
AddProvidersNoSeen(providers, list, type, link) ==
    IF list = <<>> THEN providers
    ELSE LET p == list[1]
         IN  AddProvidersNoSeen(
                 Append(providers,
                        [name |-> p.provider_name,
                         logo |-> <<"https://image.tmdb.org/t/p/original", p.logo_path>>,
                         link |-> link, type |-> type]),
                 Tail(list), type, link)

\* one of the two loops: push every provider whose name was not seen yet
RECURSIVE AddProviders(_, _, _, _)
AddProviders(providers, list, type, link) ==
    IF list = <<>> THEN providers
    ELSE LET p == list[1]
             seen == {providers[k].name : k \in 1..Len(providers)}
         IN  AddProviders(
                 IF p.provider_name \in seen THEN providers
                 ELSE Append(providers,
                             [name |-> p.provider_name,
                              logo |-> <<"https://image.tmdb.org/t/p/original", p.logo_path>>,
                              link |-> link, type |-> type]),
                 Tail(list), type, link)

\* variant of getStreamingProviders: response.ok is not checked, the body
\* of a non-OK response is used as if it were the payload
getStreamingProvidersNoOkCheck(hasKey, outcome, results) ==
    IF ~hasKey \/ outcome \in {"throws", "empty"} \/ results = <<>> THEN <<>>
    ELSE LET regionData == RegionData(results)
             subs == AddProviders(<<>>, Take(regionData.flatrate, 4), "subscription", regionData.link)
         IN  Take(AddProviders(subs, Take(regionData.rent, 2), "rent", regionData.link), 6)

\* the value of getStreamingProviders for each outcome of its fetch
getStreamingProviders(hasKey, outcome, results) ==
    IF ~hasKey \/ outcome # "ok" \/ results = <<>> THEN <<>>
    ELSE LET regionData == RegionData(results)
             subs == AddProviders(<<>>, Take(regionData.flatrate, 4), "subscription", regionData.link)
         IN  Take(AddProviders(subs, Take(regionData.rent, 2), "rent", regionData.link), 6)

\* bodies the similar endpoint returns
SimilarPayload ==
    [k \in 1..7 |->
        [id |-> 100 + k, title |-> "Similar",
         poster_path |-> IF k = 1 THEN "" ELSE "/p.jpg",
         release_date |-> IF k = 2 THEN <<>> ELSE <<"1980", "05", "21">>]]
SimilarPayloads == {SimilarPayload}

\* the value of getSimilarMovies for each outcome of its fetch
getSimilarMovies(hasKey, outcome, results) ==
    IF ~hasKey \/ outcome # "ok" THEN <<>>
    ELSE LET page == Take(results, 6)
         IN  [k \in 1..Len(page) |->
                 [id |-> page[k].id, title |-> page[k].title,
                  poster |-> IF page[k].poster_path # "" THEN <<"https://image.tmdb.org/t/p/w200", page[k].poster_path>> ELSE <<>>,
                  year |-> YearOf(page[k].release_date),
                  genres |-> <<>>]]

Pending == [state |-> "pending"]

(***************************************************************************)
(* Pipeline Orchestrator: the serve handler                                *)
(***************************************************************************)
\* no function is being examined on its own
FnIdle ==
    /\ videoUrl = None
    /\ extracted = None
    /\ comments = None
    /\ keywords = None
    /\ watchData = None
    /\ providerList = None

\* the page is not being examined
PageIdle ==
    /\ index = None
    /\ urlInput = None
    /\ inFlight = <<>>
    /\ submits = 0

\* the browser application is not being examined
UiIdle ==
    /\ state = None
    /\ storage = None
    /\ now = 0
    /\ op = None
    /\ mounted = None
    /\ PageIdle

Init ==
    /\ env \in Envs
    /\ req \in Requests
    /\ pc = "start"
    /\ videoId = NotFound
    /\ snippet = None
    /\ captions = None
    /\ metadata = None
    /\ aiResponse = None
    /\ aiResult = None
    /\ moviePromises = <<>>
    /\ allMatches = <<>>
    /\ streamingProviders = None
    /\ similarMovies = None
    /\ response = NoResponse
    /\ calls = [ep \in Endpoints |-> [a \in CallArgs |-> 0]]
    /\ oembed = None
    /\ captionsResponse = None
    /\ commentsResponse = None
    /\ FnIdle
    /\ UiIdle

\* the catch block of the handler: status 500 with the error's message
Catch(message) ==
    /\ response' = [status |-> 500, error |-> message]
    /\ pc' = "done"

\* variant of StartFallback: the video lookup is tried once more before
\* the oEmbed fetch is issued
StartFallbackRetriesLookup ==
    /\ calls' = Fetch(Fetch(calls, "videos", 0), "oembed", 0)
    /\ pc' = "oembed"

\* getYouTubeMetadataFallback up to its fetch
StartFallback ==
    /\ calls' = Fetch(calls, "oembed", 0)
    /\ pc' = "oembed"

\* const metadata = await getYouTubeMetadata(videoId) has the value md:
\* identifyMoviesWithAI runs up to its fetch, or throws without a key
MetadataFetched(md) ==
    /\ metadata' = md
    /\ IF env.LOVABLE_API_KEY
       THEN /\ calls' = Fetch(calls, "ai", 0)
            /\ pc' = "ai"
            /\ UNCHANGED <<aiResult, response>>
       ELSE /\ aiResult' = Thrown("LOVABLE_API_KEY is not configured")
            /\ Catch(aiResult'.message)
            /\ UNCHANGED calls

\* variant of ServeRequest: the video lookup is issued before the URL is
\* checked, so a rejected request has already caused a fetch
ServeRequestFetchesFirst ==
    /\ pc = "start"
    /\ IF UrlMissing(req)
       THEN /\ response' = ErrorResponse(400, <<"Video URL is required">>)
            /\ pc' = "done"
            /\ UNCHANGED <<videoId, calls>>
       ELSE /\ videoId' = extractVideoId(req.videoUrl)
            /\ IF ~videoId'.found
               THEN /\ response' = ErrorResponse(400, <<"Invalid YouTube URL. Please provide a valid YouTube video link.">>)
                    /\ pc' = "done"
                    /\ calls' = Fetch(calls, "videos", 0)
               ELSE /\ UNCHANGED response
                    /\ IF env.YOUTUBE_API_KEY
                       THEN /\ calls' = Fetch(calls, "videos", 0)
                            /\ pc' = "videos"
                       ELSE StartFallback
    /\ UNCHANGED <<uiVars, fnVars, oembed, captionsResponse, commentsResponse, env, req, snippet, captions, metadata, aiResponse, aiResult, moviePromises,
                   allMatches, streamingProviders, similarMovies>>

\* the handler from the request to its first fetch
ServeRequest ==
    /\ pc = "start"
    /\ IF UrlMissing(req)
       THEN /\ response' = ErrorResponse(400, <<"Video URL is required">>)
            /\ pc' = "done"
            /\ UNCHANGED <<videoId, calls>>
       ELSE /\ videoId' = extractVideoId(req.videoUrl)
            /\ IF ~videoId'.found
               THEN /\ response' = ErrorResponse(400, <<"Invalid YouTube URL. Please provide a valid YouTube video link.">>)
                    /\ pc' = "done"
                    /\ UNCHANGED calls
               ELSE /\ UNCHANGED response
                    /\ IF env.YOUTUBE_API_KEY
                       THEN /\ calls' = Fetch(calls, "videos", 0)
                            /\ pc' = "videos"
                       ELSE StartFallback
    /\ UNCHANGED <<uiVars, fnVars, oembed, captionsResponse, commentsResponse, env, req, snippet, captions, metadata, aiResponse, aiResult, moviePromises,
                   allMatches, streamingProviders, similarMovies>>

\* variant of VideoLookupReturn: no try/catch around the lookup, so an
\* exception of the fetch reaches the handler's catch block
VideoLookupReturnUncaught ==
    /\ pc = "videos"
    /\ \E outcome \in FetchOutcomes, sn \in Snippets :
        IF outcome = "ok"
        THEN /\ snippet' = sn
             /\ calls' = Fetch(calls, "captions", 0)
             /\ pc' = "captions"
             /\ UNCHANGED response
        ELSE IF outcome = "throws"
        THEN /\ Catch(<<"network error">>)
             /\ UNCHANGED <<snippet, calls>>
        ELSE /\ StartFallback
             /\ UNCHANGED <<snippet, response>>
    /\ UNCHANGED <<uiVars, fnVars, oembed, captionsResponse, commentsResponse, env, req, videoId, captions, metadata, aiResponse, aiResult, moviePromises,
                   allMatches, streamingProviders, similarMovies>>

\* the videos fetch returns: on to fetchCaptions, or to the fallback
VideoLookupReturn ==
    /\ pc = "videos"
    /\ \E outcome \in FetchOutcomes, sn \in Snippets :
        IF outcome = "ok"
        THEN /\ snippet' = sn
             /\ calls' = Fetch(calls, "captions", 0)
             /\ pc' = "captions"
        ELSE /\ StartFallback
             /\ UNCHANGED snippet
    /\ UNCHANGED <<uiVars, fnVars, oembed, captionsResponse, commentsResponse, env, req, videoId, captions, metadata, aiResponse, aiResult, moviePromises,
                   allMatches, streamingProviders, similarMovies, response>>

\* the captions fetch returns: on to fetchCommentKeywords
CaptionsReturn ==
    /\ pc = "captions"
    /\ \E outcome \in FetchOutcomes, langs \in CaptionTracks :
        /\ captionsResponse' = [ok |-> outcome = "ok"]
        /\ captions' = fetchCaptionsResult(outcome, langs)
    /\ calls' = Fetch(calls, "commentThreads", 0)
    /\ pc' = "comments"
    /\ UNCHANGED <<uiVars, fnVars, oembed, commentsResponse, env, req, videoId, snippet, metadata, aiResponse, aiResult, moviePromises,
                   allMatches, streamingProviders, similarMovies, response>>

\* the comments fetch returns: getYouTubeMetadata returns the primary object
CommentsReturn ==
    /\ pc = "comments"
    /\ \E outcome \in FetchOutcomes, kw \in KeywordResults :
        /\ commentsResponse' = [ok |-> outcome = "ok"]
        /\ MetadataFetched(PrimaryMetadata(snippet, videoId.id, captions,
               fetchCommentKeywordsResult(outcome, kw)))
    /\ UNCHANGED <<uiVars, fnVars, oembed, captionsResponse, env, req, videoId, snippet, captions, aiResponse, moviePromises,
                   allMatches, streamingProviders, similarMovies>>

\* the oEmbed fetch returns: getYouTubeMetadataFallback returns
OEmbedReturn ==
    /\ pc = "oembed"
    /\ \E outcome \in FetchOutcomes \ {"empty"}, data \in OEmbedData :
        /\ oembed' = IF outcome = "ok" THEN [ok |-> TRUE, data |-> data] ELSE [ok |-> FALSE]
        /\ MetadataFetched(FallbackMetadata(outcome, data, videoId.id))
    /\ UNCHANGED <<uiVars, fnVars, captionsResponse, commentsResponse, env, req, videoId, snippet, captions, aiResponse, moviePromises,
                   allMatches, streamingProviders, similarMovies>>

\* variant of IssueSearches: the candidates are resolved one after another,
\* only the first search is issued when the list is mapped
IssueFirstSearchOnly(log, n) ==
    [log EXCEPT !["search"] = [a \in CallArgs |-> IF a = 1 /\ n >= 1 THEN @[a] + 1 ELSE @[a]]]

\* aiResult.matches.map(async ...): each of the n callbacks runs up to its
\* search fetch before map returns
IssueSearches(log, n) ==
    [log EXCEPT !["search"] = [a \in CallArgs |-> IF a \in 1..n THEN @[a] + 1 ELSE @[a]]]

\* the AI fetch returns: identifyMoviesWithAI settles; on success the
\* handler maps the candidates to promises, each running getMovieFromTMDB
\* up to its search fetch (or throwing at once without a key)
RankerReturn ==
    /\ pc = "ai"
    /\ \E r \in AIResponses :
        LET res == identifyMoviesWithAI(r)
        IN  /\ aiResponse' = r
            /\ aiResult' = res
            /\ IF res.kind = "thrown"
               THEN /\ Catch(res.message)
                    /\ UNCHANGED <<moviePromises, calls>>
               ELSE IF ~res.hasMatches
               THEN /\ Catch(<<"Cannot read properties of undefined (reading 'map')">>)
                    /\ UNCHANGED <<moviePromises, calls>>
               ELSE /\ moviePromises' =
                           [k \in 1..Len(res.matches) |->
                               IF env.TMDB_API_KEY THEN Searching
                               ELSE Rejected("TMDB_API_KEY is not configured")]
                    /\ calls' = IF env.TMDB_API_KEY THEN IssueSearches(calls, Len(res.matches))
                                ELSE calls
                    /\ pc' = "resolve"
                    /\ UNCHANGED response
    /\ UNCHANGED <<uiVars, fnVars, oembed, captionsResponse, commentsResponse, env, req, videoId, snippet, captions, metadata, allMatches,
                   streamingProviders, similarMovies>>

\* Promise.all has settled and its reaction is queued: it runs before the
\* callback of any other fetch
HandlerReady ==
    /\ pc = "resolve"
    /\ \/ \E k \in 1..Len(moviePromises) : moviePromises[k].state = "rejected"
       \/ \A k \in 1..Len(moviePromises) : moviePromises[k].state = "fulfilled"

\* the search fetch of candidate i returns
SearchReturn(i) ==
    /\ ~HandlerReady
    /\ moviePromises[i].state = "search"
    /\ \E outcome \in FetchOutcomes :
        LET p == AfterSearch(aiResult.matches[i], outcome)
        IN  /\ moviePromises' = [moviePromises EXCEPT ![i] = p]
            /\ calls' = IF p.state = "details" THEN Fetch(calls, "details", i) ELSE calls
    /\ UNCHANGED <<uiVars, fnVars, oembed, captionsResponse, commentsResponse, env, req, pc, videoId, snippet, captions, metadata, aiResponse, aiResult,
                   allMatches, streamingProviders, similarMovies, response>>

\* the details fetch of candidate i returns
DetailsReturn(i) ==
    /\ ~HandlerReady
    /\ moviePromises[i].state = "details"
    /\ \E outcome \in FetchOutcomes \ {"empty"} :
        moviePromises' = [moviePromises EXCEPT ![i] =
            AfterDetails(aiResult.matches[i], moviePromises[i].id, outcome, aiResult.detailedReasoning)]
    /\ UNCHANGED <<uiVars, fnVars, oembed, captionsResponse, commentsResponse, env, req, pc, videoId, snippet, captions, metadata, aiResponse, aiResult,
                   allMatches, streamingProviders, similarMovies, response, calls>>

\* await Promise.all(moviePromises) throws the first rejection
ResolutionRejected ==
    /\ pc = "resolve"
    /\ \E k \in 1..Len(moviePromises) :
        /\ moviePromises[k].state = "rejected"
        /\ \A l \in 1..(k - 1) : moviePromises[l].state # "rejected"
        /\ Catch(moviePromises[k].message)
    /\ UNCHANGED <<uiVars, fnVars, oembed, captionsResponse, commentsResponse, env, req, videoId, snippet, captions, metadata, aiResponse, aiResult,
                   moviePromises, allMatches, streamingProviders, similarMovies, calls>>

\* variant of NotFoundResponse: the message does not name the top guess
NotFoundResponseGeneric(ai) ==
    [status |-> 404,
     error |-> <<"Could not find movie information.">>,
     aiReasoning |-> ai.detailedReasoning]

\* the body of the 404 response
NotFoundResponse(ai) ==
    [status |-> 404,
     error |-> <<"Could not find movie information. The AI suggested: ",
                 IF ai.matches # <<>> THEN ai.matches[1].movieTitle ELSE "undefined">>,
     aiReasoning |-> ai.detailedReasoning]

\* a settled enrichment promise: its list, and whether the fetch delivered
\* a usable payload
Settled(list, ok) == [state |-> "fulfilled", value |-> list, ok |-> ok]

\* the promise of an enrichment fetcher right after the call
EnrichmentStarted == IF env.TMDB_API_KEY THEN Pending ELSE Settled(<<>>, FALSE)

\* variant of StartEnrichment: enrichment is fetched for every match
StartEnrichmentForAll(log, matches) ==
    LET n(a) == Cardinality({k \in 1..Len(matches) : matches[k].movie.tmdbId = a})
    IN  [log EXCEPT !["providers"] = [a \in CallArgs |-> @[a] + n(a)],
                    !["similar"] = [a \in CallArgs |-> @[a] + n(a)]]

\* the fetches getStreamingProviders and getSimilarMovies issue for bestMatch
StartEnrichment(log, matches) ==
    Fetch(Fetch(log, "providers", matches[1].movie.tmdbId),
          "similar", matches[1].movie.tmdbId)

\* await Promise.all(moviePromises) returns: filter, then 404 or enrichment
ResolutionDone ==
    /\ pc = "resolve"
    /\ \A k \in 1..Len(moviePromises) : moviePromises[k].state = "fulfilled"
    /\ allMatches' = FilterResolved(moviePromises)
    /\ IF allMatches' = <<>>
       THEN /\ response' = NotFoundResponse(aiResult)
            /\ pc' = "done"
            /\ UNCHANGED <<streamingProviders, similarMovies, calls>>
       ELSE /\ streamingProviders' = EnrichmentStarted
            /\ similarMovies' = EnrichmentStarted
            /\ calls' = IF env.TMDB_API_KEY THEN StartEnrichment(calls, allMatches') ELSE calls
            /\ pc' = "enrich"
            /\ UNCHANGED response
    /\ UNCHANGED <<uiVars, fnVars, oembed, captionsResponse, commentsResponse, env, req, videoId, snippet, captions, metadata, aiResponse, aiResult, moviePromises>>

\* getStreamingProviders on the payloads of ProviderPayloads, tabulated
StreamingProvidersOf ==
    [hasKey \in BOOLEAN |-> [outcome \in FetchOutcomes |-> [results \in ProviderPayloads |->
        getStreamingProviders(hasKey, outcome, results)]]]

\* the watch-providers fetch returns
ProvidersReturn ==
    /\ pc = "enrich"
    /\ streamingProviders = Pending
    /\ \E outcome \in FetchOutcomes, results \in ProviderPayloads :
        streamingProviders' = Settled(StreamingProvidersOf[env.TMDB_API_KEY][outcome][results],
                                      outcome = "ok")
    /\ UNCHANGED <<uiVars, fnVars, oembed, captionsResponse, commentsResponse, env, req, pc, videoId, snippet, captions, metadata, aiResponse, aiResult,
                   moviePromises, allMatches, similarMovies, response, calls>>

\* the similar fetch returns
SimilarReturn ==
    /\ pc = "enrich"
    /\ similarMovies = Pending
    /\ \E outcome \in FetchOutcomes, results \in SimilarPayloads :
        similarMovies' = Settled(getSimilarMovies(env.TMDB_API_KEY, outcome, results),
                                 outcome = "ok")
    /\ UNCHANGED <<uiVars, fnVars, oembed, captionsResponse, commentsResponse, env, req, pc, videoId, snippet, captions, metadata, aiResponse, aiResult,
                   moviePromises, allMatches, streamingProviders, response, calls>>

\* variant of SuccessResponse: the best movie is the match with the
\* highest confidence
SuccessResponseTopConfidence(matches, md, providers, similar, ai) ==
    [status |-> 200,
     movie |-> matches[CHOOSE k \in 1..Len(matches) :
                   \A l \in 1..Len(matches) : matches[l].confidence <= matches[k].confidence].movie,
     videoThumbnail |-> md.thumbnail,
     matches |-> matches,
     streamingProviders |-> providers,
     similarMovies |-> similar,
     detailedReasoning |-> ai.detailedReasoning]

\* the body of the success response
SuccessResponse(matches, md, providers, similar, ai) ==
    [status |-> 200,
     movie |-> matches[1].movie,
     videoThumbnail |-> md.thumbnail,
     matches |-> matches,
     streamingProviders |-> providers,
     similarMovies |-> similar,
     detailedReasoning |-> ai.detailedReasoning]

\* both enrichment promises are fulfilled: the handler answers
Respond ==
    /\ pc = "enrich"
    /\ streamingProviders.state = "fulfilled"
    /\ similarMovies.state = "fulfilled"
    /\ response' = SuccessResponse(allMatches, metadata, streamingProviders.value,
                                   similarMovies.value, aiResult)
    /\ pc' = "done"
    /\ UNCHANGED <<uiVars, fnVars, oembed, captionsResponse, commentsResponse, env, req, videoId, snippet, captions, metadata, aiResponse, aiResult,
                   moviePromises, allMatches, streamingProviders, similarMovies, calls>>

Next ==
    \/ ServeRequest
    \/ VideoLookupReturn
    \/ CaptionsReturn
    \/ CommentsReturn
    \/ OEmbedReturn
    \/ RankerReturn
    \/ \E i \in 1..Len(moviePromises) : SearchReturn(i)
    \/ \E i \in 1..Len(moviePromises) : DetailsReturn(i)
    \/ ResolutionRejected
    \/ ResolutionDone
    \/ ProvidersReturn
    \/ SimilarReturn
    \/ Respond

Spec == Init /\ [][Next]_vars

\* every fetch that was issued returns or throws in the end, and the event
\* loop runs a continuation that is ready: a step that can be taken is
\* not put off forever
FairSpec == Spec /\ WF_vars(Next)

(***************************************************************************)
(* Functions examined on their own: a call with an argument from a bounded *)
(* set, while no request is being served                                   *)
(***************************************************************************)
\* the handler has a request and has not started on it
PipelineIdle ==
    /\ env = [YOUTUBE_API_KEY |-> TRUE, LOVABLE_API_KEY |-> TRUE, TMDB_API_KEY |-> TRUE]
    /\ req = [hasUrl |-> TRUE, videoUrl |-> UrlShort]
    /\ pc = "start"
    /\ videoId = NotFound
    /\ snippet = None
    /\ captions = None
    /\ metadata = None
    /\ aiResponse = None
    /\ aiResult = None
    /\ moviePromises = <<>>
    /\ allMatches = <<>>
    /\ streamingProviders = None
    /\ similarMovies = None
    /\ response = NoResponse
    /\ calls = [ep \in Endpoints |-> [a \in CallArgs |-> 0]]
    /\ oembed = None
    /\ captionsResponse = None
    /\ commentsResponse = None

pipelineVars == <<env, req, pc, videoId, snippet, captions, metadata, aiResponse, aiResult,
                  moviePromises, allMatches, streamingProviders, similarMovies,
                  response, calls, oembed, captionsResponse, commentsResponse>>

\* the value a function returned
Returned(v) == [kind |-> "returned", value |-> v]

(***************************************************************************)
(* getStreamingProviders on its own                                        *)
(***************************************************************************)
MaxFlatrate == 5
MaxRent == 3

ProviderNames == <<"Netflix", "Disney", "Hulu", "Max", "Apple", "Amazon">>

\* flatrate lists up to MaxFlatrate entries, repeats included; names are
\* taken in the order of ProviderNames as new ones appear
FlatrateLists ==
    UNION {{[i \in 1..n |-> Provider(ProviderNames[f[i]])] :
              f \in {g \in [1..n -> 1..Len(ProviderNames)] :
                        \A i \in 1..n :
                            \A v \in 1..(g[i] - 1) : \E j \in 1..(i - 1) : g[j] = v}} :
           n \in 0..Min(MaxFlatrate, Len(ProviderNames))}

\* rent lists up to MaxRent entries over a name the flatrate lists start
\* with and two they end with
RentLists ==
    UNION {[1..n -> {Provider("Netflix"), Provider("Apple"), Provider("Amazon")}] :
           n \in 0..MaxRent}

\* the link field of a region's entry
RegionLink(code) ==
    IF code = "US" THEN "https://tmdb/US"
    ELSE IF code = "GB" THEN "https://tmdb/GB"
    ELSE "https://tmdb/FR"

Region(code, flatrate, rent) ==
    [region |-> code, link |-> RegionLink(code), flatrate |-> flatrate, rent |-> rent]

\* data.results: no region, a US region alone or after another region, and
\* another region alone or before a third one
WatchResults ==
    {<<>>} \cup
    UNION {{<<Region("US", f, r)>>, <<RegionGB, Region("US", f, r)>>, <<Region("GB", f, r)>>,
            <<Region("FR", f, r), RegionGB>>} :
           f \in FlatrateLists, r \in RentLists}

WatchDataInputs == {[results |-> r] : r \in WatchResults}

InitProviders ==
    /\ PipelineIdle
    /\ UiIdle
    /\ watchData \in WatchDataInputs
    /\ providerList = None
    /\ videoUrl = None /\ extracted = None /\ comments = None /\ keywords = None

\* a call of getStreamingProviders whose fetch ends one way or another
GetStreamingProviders ==
    /\ watchData # None
    /\ providerList = None
    /\ \E outcome \in FetchOutcomes :
        providerList' = Returned(getStreamingProviders(env.TMDB_API_KEY, outcome, watchData.results))
    /\ UNCHANGED <<uiVars, pipelineVars, videoUrl, extracted, comments, keywords, watchData>>

NextProviders == GetStreamingProviders

SpecProviders == InitProviders /\ [][NextProviders]_vars

(***************************************************************************)
(* extractKeywordsFromComments on its own                                  *)
(***************************************************************************)
MaxComments == 2

CommentInputs == UNION {[1..n -> CommentPool] : n \in 0..MaxComments}

InitKeywords ==
    /\ PipelineIdle
    /\ UiIdle
    /\ comments \in CommentInputs
    /\ keywords = None
    /\ videoUrl = None /\ extracted = None /\ watchData = None /\ providerList = None

\* a call of extractKeywordsFromComments
ExtractKeywords ==
    /\ keywords = None
    /\ keywords' = Returned(extractKeywordsFromComments(comments))
    /\ UNCHANGED <<uiVars, pipelineVars, videoUrl, extracted, comments, watchData, providerList>>

NextKeywords == ExtractKeywords

SpecKeywords == InitKeywords /\ [][NextKeywords]_vars

(***************************************************************************)
(* extractVideoId on its own                                               *)
(***************************************************************************)
\* what stands before the host of a link
UrlPrefixes ==
    {<<>>,
     <<"h", "t", "t", "p", "s", ":", "/", "/">>,
     <<"h", "t", "t", "p", "s", ":", "/", "/", "w", "w", "w", ".">>,
     <<"h", "t", "t", "p", ":", "/", "/", "m", ".">>}

\* the link forms the two patterns recognize
UrlForms == {WatchPrefix, ShortPrefix, EmbedPrefix, VPrefix, ShortsPrefix}

\* video identifiers
VideoIds ==
    {<<"a", "b", "c", "1", "2", "3">>,
     <<"d", "Q", "w", "4", "w", "9", "W", "g", "X", "c", "Q">>,
     <<"a", "-", "B", "_", "9">>}

\* what follows the identifier: nothing, further parameters, a fragment
UrlSuffixes ==
    {<<>>,
     <<"&", "t", "=", "4", "2", "s">>,
     <<"?", "s", "i", "=", "x", "y", "z", "&", "t", "=", "1">>,
     <<"#", "t", "o", "p">>,
     <<"&", "f", "e", "a", "t", "u", "r", "e", "=", "y", "o", "u", "t", "u", ".", "b", "e">>}

\* strings without a link form that carries an identifier: non-URLs, other
\* sites, other pages of the site, a form with nothing after it
NonLinkTexts ==
    {<<>>,
     <<"n", "o", "t", " ", "a", " ", "u", "r", "l">>,
     <<"h", "t", "t", "p", "s", ":", "/", "/", "v", "i", "m", "e", "o", ".", "c", "o", "m", "/", "w", "a", "t", "c", "h", "?", "v", "=", "a", "b", "c", "1", "2", "3">>,
     <<"h", "t", "t", "p", "s", ":", "/", "/", "w", "w", "w", ".", "y", "o", "u", "t", "u", "b", "e", ".", "c", "o", "m", "/">>,
     <<"h", "t", "t", "p", "s", ":", "/", "/", "w", "w", "w", ".", "y", "o", "u", "t", "u", "b", "e", ".", "c", "o", "m", "/", "c", "h", "a", "n", "n", "e", "l", "/", "a", "b", "c", "1", "2", "3">>,
     <<"h", "t", "t", "p", "s", ":", "/", "/", "w", "w", "w", ".", "y", "o", "u", "t", "u", "b", "e", ".", "c", "o", "m", "/", "w", "a", "t", "c", "h", "?", "f", "e", "a", "t", "u", "r", "e", "=", "s", "h", "a", "r", "e">>,
     <<"h", "t", "t", "p", "s", ":", "/", "/", "y", "o", "u", "t", "u", ".", "b", "e", "/">>,
     <<"y", "o", "u", "t", "u", "b", "e", ".", "c", "o", "m", "/", "w", "a", "t", "c", "h", "?", "v", "=", "&", "t", "=", "1">>,
     <<"h", "t", "t", "p", "s", ":", "/", "/", "w", "w", "w", ".", "y", "o", "u", "t", "u", "b", "e", ".", "c", "o", "m", "/", "p", "l", "a", "y", "l", "i", "s", "t", "?", "l", "i", "s", "t", "=", "a", "b", "c", "1", "2", "3">>}

Links == [pre : UrlPrefixes, form : UrlForms, id : VideoIds, suf : UrlSuffixes]
NonLinks == [pre : NonLinkTexts, form : {<<>>}, id : {<<>>}, suf : {<<>>}]

\* the string passed to extractVideoId
UrlText(u) == u.pre \o u.form \o u.id \o u.suf

InitExtract ==
    /\ PipelineIdle
    /\ UiIdle
    /\ videoUrl \in Links \cup NonLinks
    /\ extracted = None
    /\ comments = None /\ keywords = None /\ watchData = None /\ providerList = None

\* a call of extractVideoId
ExtractVideoId ==
    /\ extracted = None
    /\ extracted' = Returned(extractVideoId(UrlText(videoUrl)))
    /\ UNCHANGED <<uiVars, pipelineVars, videoUrl, comments, keywords, watchData, providerList>>

NextExtract == ExtractVideoId

SpecExtract == InitExtract /\ [][NextExtract]_vars

(***************************************************************************)
(* useMovieHistory: the hook that keeps history, saved movies and          *)
(* collections in React state and persists them in localStorage            *)
(***************************************************************************)
DigitChars == <<"0", "1", "2", "3", "4", "5", "6", "7", "8", "9">>

\* `${n}` for a non-negative integer n
RECURSIVE ToDigits(_)
ToDigits(n) ==
    IF n < 10 THEN <<DigitChars[n + 1]>>
    ELSE ToDigits(n \div 10) \o <<DigitChars[(n % 10) + 1]>>

\* s.includes(sub)
includes(s, sub) == \E i \in 1..(Len(s) + 1) : IsPrefixAt(s, i, sub)

\* `${movie.tmdbId}-${Date.now()}`
HistoryId(tmdbId, t) == ToDigits(tmdbId) \o <<"-">> \o ToDigits(t)

\* `saved-${movie.tmdbId}`
SavedId(tmdbId) == <<"s", "a", "v", "e", "d", "-">> \o ToDigits(tmdbId)

\* `collection-${Date.now()}`
CollectionId(t) == <<"c", "o", "l", "l", "e", "c", "t", "i", "o", "n", "-">> \o ToDigits(t)

\* the movies the components pass to the hook (Omit<SavedMovie, "id" |
\* "savedAt">); confidence is matches[0]?.confidence, <<>> when undefined
Movies ==
    {[tmdbId |-> 1, title |-> "Up", confidence |-> <<80>>],
     [tmdbId |-> 12, title |-> "Heat", confidence |-> <<>>]}

\* { ...movie, id, savedAt }
NewMovie(movie, id, savedAt) ==
    [k \in DOMAIN movie \cup {"id", "savedAt"} |->
        IF k = "id" THEN id ELSE IF k = "savedAt" THEN savedAt ELSE movie[k]]

\* the time the module is loaded and the first instance of the hook mounts
MountTime == 6000

WatchLater == <<"w", "a", "t", "c", "h", "-", "l", "a", "t", "e", "r">>
FoundFromClips == <<"f", "o", "u", "n", "d", "-", "f", "r", "o", "m", "-", "c", "l", "i", "p", "s">>

defaultState ==
    [history |-> <<>>,
     saved |-> <<>>,
     collections |->
        <<[id |-> WatchLater, name |-> "Watch Later", createdAt |-> MountTime, movieIds |-> <<>>],
          [id |-> FoundFromClips, name |-> "Found from Clips", createdAt |-> MountTime, movieIds |-> <<>>]>>]

\* JSON.stringify of a SavedMovie leaves out a property that is undefined
StringifyMovie(m) ==
    IF "confidence" \in DOMAIN m /\ m["confidence"] = <<>>
    THEN [k \in DOMAIN m \ {"confidence"} |-> m[k]]
    ELSE m

\* JSON.stringify(state), as the value JSON.parse gives back for it
Stringify(st) ==
    [json |-> [history |-> [k \in 1..Len(st.history) |-> StringifyMovie(st.history[k])],
               saved |-> [k \in 1..Len(st.saved) |-> StringifyMovie(st.saved[k])],
               collections |-> st.collections]]

\* loadState: the parsed item, or defaultState when there is none
loadState(item) == IF item = None THEN defaultState ELSE item.json

\* list.filter(keep) by the positions to keep
RECURSIVE FilterAt(_, _, _)
FilterAt(list, keep, k) ==
    IF k > Len(list) THEN <<>>
    ELSE IF k \in keep THEN <<list[k]>> \o FilterAt(list, keep, k + 1)
    ELSE FilterAt(list, keep, k + 1)

\* the window of "Prevent duplicates": Date.now() - h.savedAt < 5000
RecentWindow == 5000

\* "Keep last 50"
HistoryLimit == 50

\* variant of addToHistory: the list is not cut after the new entry is put
\* in front
addToHistoryUncut(prev, movie, t1, t2, t3) ==
    LET newMovie == NewMovie(movie, HistoryId(movie.tmdbId, t1), t2)
        recentDuplicate ==
            \E k \in 1..Len(prev.history) :
                /\ prev.history[k].tmdbId = movie.tmdbId
                /\ t3 - prev.history[k].savedAt < RecentWindow
    IN  IF recentDuplicate THEN prev
        ELSE [prev EXCEPT !.history = <<newMovie>> \o prev.history]

\* the updater of addToHistory; t1, t2 and t3 are what its three Date.now()
\* calls return (id, savedAt, duplicate check)
addToHistory(prev, movie, t1, t2, t3) ==
    LET newMovie == NewMovie(movie, HistoryId(movie.tmdbId, t1), t2)
        recentDuplicate ==
            \E k \in 1..Len(prev.history) :
                /\ prev.history[k].tmdbId = movie.tmdbId
                /\ t3 - prev.history[k].savedAt < RecentWindow
    IN  IF recentDuplicate THEN prev
        ELSE [prev EXCEPT !.history = Take(<<newMovie>> \o prev.history, HistoryLimit)]

\* variant of saveMovie: no check whether the movie is saved already
saveMovieAgain(prev, movie, t) ==
    [prev EXCEPT !.saved = <<NewMovie(movie, SavedId(movie.tmdbId), t)>> \o prev.saved]

\* the updater of saveMovie; t is what its Date.now() call returns
saveMovie(prev, movie, t) ==
    IF \E k \in 1..Len(prev.saved) : prev.saved[k].tmdbId = movie.tmdbId THEN prev
    ELSE [prev EXCEPT !.saved = <<NewMovie(movie, SavedId(movie.tmdbId), t)>> \o prev.saved]

\* the updater of unsaveMovie
unsaveMovie(prev, tmdbId) ==
    [prev EXCEPT
        !.saved = FilterAt(prev.saved, {k \in 1..Len(prev.saved) : prev.saved[k].tmdbId # tmdbId}, 1),
        !.collections =
            [c \in 1..Len(prev.collections) |->
                [prev.collections[c] EXCEPT !.movieIds =
                    FilterAt(@, {k \in 1..Len(@) : ~includes(@[k], ToDigits(tmdbId))}, 1)]]]

\* state.saved.some((s) => s.tmdbId === tmdbId)
isMovieSaved(st, tmdbId) == \E k \in 1..Len(st.saved) : st.saved[k].tmdbId = tmdbId

\* the updater of addToCollection
addToCollection(prev, collectionId, movieId) ==
    [prev EXCEPT !.collections =
        [c \in 1..Len(prev.collections) |->
            IF /\ prev.collections[c].id = collectionId
               /\ \A k \in 1..Len(prev.collections[c].movieIds) : prev.collections[c].movieIds[k] # movieId
            THEN [prev.collections[c] EXCEPT !.movieIds = Append(@, movieId)]
            ELSE prev.collections[c]]]

\* the updater of removeFromCollection
removeFromCollection(prev, collectionId, movieId) ==
    [prev EXCEPT !.collections =
        [c \in 1..Len(prev.collections) |->
            IF prev.collections[c].id = collectionId
            THEN [prev.collections[c] EXCEPT !.movieIds =
                     FilterAt(@, {k \in 1..Len(@) : @[k] # movieId}, 1)]
            ELSE prev.collections[c]]]

\* createCollection: t1 is the Date.now() of the id, t2 that of createdAt
createCollection(prev, name, t1, t2) ==
    [prev EXCEPT !.collections =
        Append(@, [id |-> CollectionId(t1), name |-> name, createdAt |-> t2, movieIds |-> <<>>])]

\* the updater of deleteCollection
deleteCollection(prev, collectionId) ==
    [prev EXCEPT !.collections =
        FilterAt(@, {k \in 1..Len(@) : @[k].id # collectionId}, 1)]

\* the updater of removeFromHistory
removeFromHistory(prev, id) ==
    [prev EXCEPT !.history = FilterAt(@, {k \in 1..Len(@) : @[k].id # id}, 1)]

\* the updater of clearHistory
clearHistory(prev) == [prev EXCEPT !.history = <<>>]

(***************************************************************************)
(* One instance of the hook: its calls, one after another                  *)
(***************************************************************************)
\* the clock is followed up to MaxNow
MaxNow == 11000

\* the time that passes between two calls: just below the window of the
\* duplicate check, or the window itself
Ticks == {RecentWindow - 1, RecentWindow}

\* the clock may move by a millisecond between two Date.now() calls of one
\* function
Skews == {0, 1}

\* what the last Date.now() call before this one returned
LastRead == IF op = None THEN MountTime ELSE op.at

\* a stored history of n entries of other movies, newest first
StoredHistory(n) ==
    [k \in 1..n |->
        [tmdbId |-> 100 + k, title |-> "Older", confidence |-> <<50>>,
         id |-> HistoryId(100 + k, n - k), savedAt |-> n - k]]

\* a stored entry of saved
StoredSaved(tmdbId) ==
    [tmdbId |-> tmdbId, title |-> "Kept", confidence |-> <<60>>,
     id |-> SavedId(tmdbId), savedAt |-> 0]

\* what localStorage holds when the hook mounts: nothing, or the state an
\* earlier visit left, with a history one entry short of the limit
StoredVisit ==
    Stringify([history |-> StoredHistory(HistoryLimit - 1),
               saved |-> <<StoredSaved(7)>>,
               collections |->
                   <<[id |-> WatchLater, name |-> "Watch Later", createdAt |-> 0,
                      movieIds |-> <<SavedId(7)>>],
                     [id |-> FoundFromClips, name |-> "Found from Clips", createdAt |-> 0,
                      movieIds |-> <<>>]>>])
StoredItems == {None, StoredVisit}

\* useState(loadState) and the effect that persists the state after the
\* first render
HookMounted(item) ==
    /\ PipelineIdle
    /\ FnIdle
    /\ PageIdle
    /\ now = MountTime
    /\ state = loadState(item)
    /\ storage = Stringify(state)
    /\ op = None
    /\ mounted = None

\* setState(updater) with the updater's value next, and the effect that
\* persists the new state; the call returns at the time now
Call(next, call) ==
    /\ state' = next
    /\ storage' = Stringify(next)
    /\ op' = call
    /\ UNCHANGED <<pipelineVars, fnVars, pageVars, now, mounted>>

\* time passes between two calls
Tick ==
    /\ \E d \in Ticks :
        /\ now + d <= MaxNow
        /\ now' = now + d
    /\ UNCHANGED <<pipelineVars, fnVars, pageVars, state, storage, op, mounted>>

(***************************************************************************)
(* The history: addToHistory, removeFromHistory, clearHistory              *)
(***************************************************************************)
InitHistory == \E item \in StoredItems : HookMounted(item)

\* the three Date.now() calls of addToHistory return now - d1 - d2,
\* now - d2 and now
AddToHistory ==
    \E movie \in Movies, d1, d2 \in Skews :
        /\ now - d1 - d2 >= LastRead
        /\ Call(addToHistory(state, movie, now - d1 - d2, now - d2, now),
                [name |-> "addToHistory", tmdbId |-> movie.tmdbId,
                 savedAt |-> now - d2, at |-> now])

\* the history list offers removal of the entries it shows; here those of
\* the movies of Movies
RemoveFromHistory ==
    \E k \in 1..Len(state.history) :
        /\ state.history[k].tmdbId \in {m.tmdbId : m \in Movies}
        /\ Call(removeFromHistory(state, state.history[k].id),
                [name |-> "removeFromHistory", id |-> state.history[k].id, at |-> now])

ClearHistory ==
    /\ state # None
    /\ Call(clearHistory(state), [name |-> "clearHistory", at |-> now])

NextHistory ==
    \/ AddToHistory
    \/ RemoveFromHistory
    \/ ClearHistory
    \/ Tick

SpecHistory == InitHistory /\ [][NextHistory]_vars

(***************************************************************************)
(* The saved movies: saveMovie, unsaveMovie, and SaveButton's              *)
(* handleAddToCollection                                                   *)
(***************************************************************************)
InitSaved == \E item \in StoredItems : HookMounted(item)

\* tmdbIds of the movies the buttons are shown for
ShownIds == {m.tmdbId : m \in Movies} \cup {7}

SaveMovie ==
    \E movie \in Movies :
        /\ state # None
        /\ Call(saveMovie(state, movie, now),
                [name |-> "saveMovie", tmdbId |-> movie.tmdbId, at |-> now])

UnsaveMovie ==
    \E tmdbId \in ShownIds :
        /\ state # None
        /\ Call(unsaveMovie(state, tmdbId),
                [name |-> "unsaveMovie", tmdbId |-> tmdbId, at |-> now])

\* handleAddToCollection: saveMovie when the movie is not saved, then
\* addToCollection with the id `saved-${movie.tmdbId}`
HandleAddToCollection ==
    \E movie \in Movies, c \in 1..Len(state.collections) :
        LET saved == IF isMovieSaved(state, movie.tmdbId) THEN state
                     ELSE saveMovie(state, movie, now)
        IN  Call(addToCollection(saved, state.collections[c].id, SavedId(movie.tmdbId)),
                 [name |-> "addToCollection", tmdbId |-> movie.tmdbId,
                  collectionId |-> state.collections[c].id, at |-> now])

NextSaved ==
    \/ SaveMovie
    \/ UnsaveMovie
    \/ HandleAddToCollection

SpecSaved == InitSaved /\ [][NextSaved]_vars

(***************************************************************************)
(* The collections: createCollection, deleteCollection, addToCollection,   *)
(* removeFromCollection                                                    *)
(***************************************************************************)
\* collections are created as long as there are fewer than MaxCollections
MaxCollections == 3

\* the first visit: nothing is stored
InitCollections == HookMounted(None)

\* the movie ids the calls are made with
MovieIds == {SavedId(1), SavedId(7)}

\* both Date.now() calls of createCollection return now
CreateCollection ==
    /\ Len(state.collections) < MaxCollections
    /\ Call(createCollection(state, "Favourites", now, now),
            [name |-> "createCollection", collectionId |-> CollectionId(now), at |-> now])

DeleteCollection ==
    \E c \in 1..Len(state.collections) :
        /\ state # None
        /\ Call(deleteCollection(state, state.collections[c].id),
                [name |-> "deleteCollection", collectionId |-> state.collections[c].id,
                 at |-> now])

AddToCollection ==
    \E c \in 1..Len(state.collections), movieId \in MovieIds :
        /\ state # None
        /\ Call(addToCollection(state, state.collections[c].id, movieId),
                [name |-> "addToCollection", collectionId |-> state.collections[c].id,
                 movieId |-> movieId, at |-> now])

RemoveFromCollection ==
    \E c \in 1..Len(state.collections), movieId \in MovieIds :
        /\ state # None
        /\ Call(removeFromCollection(state, state.collections[c].id, movieId),
                [name |-> "removeFromCollection", collectionId |-> state.collections[c].id,
                 movieId |-> movieId, at |-> now])

NextCollections ==
    \/ CreateCollection
    \/ DeleteCollection
    \/ AddToCollection
    \/ RemoveFromCollection
    \/ Tick

SpecCollections == InitCollections /\ [][NextCollections]_vars

(***************************************************************************)
(* Several instances of the hook: HistoryModal is mounted with the page,   *)
(* MovieResult and its SaveButton while a result is shown.  Each instance  *)
(* has its own React state and persists it under the one storage key.      *)
(***************************************************************************)
Components == {"HistoryModal", "MovieResult", "SaveButton"}

\* an instance with its component's movie prop and its own state
Instance(movie, st) == [movie |-> movie, state |-> st]

\* the page is rendered: HistoryModal's hook loads the state and its effect
\* persists it
InitShared ==
    /\ PipelineIdle
    /\ FnIdle
    /\ PageIdle
    /\ now = MountTime
    /\ state = None
    /\ op = None
    /\ mounted = [c \in Components |->
                    IF c = "HistoryModal" THEN Instance(None, loadState(None)) ELSE None]
    /\ storage = Stringify(loadState(None))

\* setState in the instance of component c with the updater's value next,
\* and that instance's effect, which persists its state
CallIn(c, next, call) ==
    /\ mounted' = [mounted EXCEPT ![c].state = next]
    /\ storage' = Stringify(next)
    /\ op' = call
    /\ UNCHANGED <<pipelineVars, fnVars, pageVars, state, now>>

\* a result is shown: MovieResult and SaveButton render, both hooks load the
\* stored state, the effects persist what was loaded, and MovieResult's
\* mount effect calls addToHistory
ShowResult ==
    \E movie \in Movies :
        /\ mounted["MovieResult"] = None
        /\ LET loaded == loadState(storage)
               added == addToHistory(loaded, movie, now, now, now)
           IN  /\ mounted' = [mounted EXCEPT !["MovieResult"] = Instance(movie, added),
                                             !["SaveButton"] = Instance(movie, loaded)]
               /\ storage' = Stringify(added)
        /\ op' = [name |-> "addToHistory", component |-> "MovieResult",
                  tmdbId |-> movie.tmdbId, at |-> now]
        /\ UNCHANGED <<pipelineVars, fnVars, pageVars, state, now>>

\* handleReset: the result is taken down, MovieResult and SaveButton unmount
HideResult ==
    /\ mounted["MovieResult"] # None
    /\ mounted' = [mounted EXCEPT !["MovieResult"] = None, !["SaveButton"] = None]
    /\ op' = [name |-> "unmount", component |-> "MovieResult", at |-> now]
    /\ UNCHANGED <<pipelineVars, fnVars, pageVars, state, storage, now>>

\* SaveButton.handleSave
HandleSave ==
    /\ mounted["SaveButton"] # None
    /\ LET self == mounted["SaveButton"]
       IN  IF isMovieSaved(self.state, self.movie.tmdbId)
           THEN CallIn("SaveButton", unsaveMovie(self.state, self.movie.tmdbId),
                       [name |-> "unsaveMovie", component |-> "SaveButton",
                        tmdbId |-> self.movie.tmdbId, at |-> now])
           ELSE CallIn("SaveButton", saveMovie(self.state, self.movie, now),
                       [name |-> "saveMovie", component |-> "SaveButton",
                        tmdbId |-> self.movie.tmdbId, at |-> now])

\* SaveButton.handleAddToCollection; the menu is rendered when the movie is
\* saved
HandleAddToWatchLater ==
    /\ mounted["SaveButton"] # None
    /\ LET self == mounted["SaveButton"]
       IN  /\ isMovieSaved(self.state, self.movie.tmdbId)
           /\ CallIn("SaveButton",
                     addToCollection(self.state, WatchLater, SavedId(self.movie.tmdbId)),
                     [name |-> "addToCollection", component |-> "SaveButton",
                      tmdbId |-> self.movie.tmdbId, at |-> now])

\* HistoryModal: the remove button of a history entry
ModalRemoveFromHistory ==
    \E k \in 1..Len(mounted["HistoryModal"].state.history) :
        LET self == mounted["HistoryModal"]
        IN  /\ self # None
            /\ CallIn("HistoryModal", removeFromHistory(self.state, self.state.history[k].id),
                      [name |-> "removeFromHistory", component |-> "HistoryModal",
                       id |-> self.state.history[k].id, at |-> now])

\* HistoryModal: the remove button of a saved movie
ModalUnsaveMovie ==
    \E k \in 1..Len(mounted["HistoryModal"].state.saved) :
        LET self == mounted["HistoryModal"]
        IN  /\ self # None
            /\ CallIn("HistoryModal", unsaveMovie(self.state, self.state.saved[k].tmdbId),
                      [name |-> "unsaveMovie", component |-> "HistoryModal",
                       tmdbId |-> self.state.saved[k].tmdbId, at |-> now])

\* HistoryModal: Clear all
ModalClearHistory ==
    /\ mounted["HistoryModal"] # None
    /\ CallIn("HistoryModal", clearHistory(mounted["HistoryModal"].state),
              [name |-> "clearHistory", component |-> "HistoryModal", at |-> now])

\* the page is loaded again: every instance is gone, HistoryModal mounts
\* and loads what is stored
Reload ==
    /\ mounted' = [c \in Components |->
                     IF c = "HistoryModal" THEN Instance(None, loadState(storage)) ELSE None]
    /\ op' = [name |-> "mount", component |-> "HistoryModal", at |-> now]
    /\ UNCHANGED <<pipelineVars, fnVars, pageVars, state, storage, now>>

NextShared ==
    \/ ShowResult
    \/ HideResult
    \/ HandleSave
    \/ HandleAddToWatchLater
    \/ ModalRemoveFromHistory
    \/ ModalUnsaveMovie
    \/ ModalClearHistory
    \/ Reload

SpecShared == InitShared /\ [][NextShared]_vars

(***************************************************************************)
(* The page: Index with its UrlInput form, handleIdentify and handleReset  *)
(***************************************************************************)
\* submit events are followed up to MaxSubmits
MaxSubmits == 4

\* a state variable of Index that is not null
Set(v) == [value |-> v]

\* what the user types into the input
UrlTexts == {<<>>, <<" ", " ">>, UrlShort, <<" ">> \o UrlShort \o <<" ">>}

\* the IdentifyResponse bodies of the function; "" stands for an absent
\* field
NoData == [error |-> "", movie |-> "", videoThumbnail |-> ""]
IdentifyResponses ==
    {[error |-> "Invalid YouTube URL. Please provide a valid YouTube video link.",
      movie |-> "", videoThumbnail |-> ""],
     [error |-> "", movie |-> "Star Wars", videoThumbnail |-> "https://img.youtube.com/vi/abc123/maxresdefault.jpg"],
     [error |-> "", movie |-> "Star Wars", videoThumbnail |-> ""],
     [error |-> "Could not find movie information.", movie |-> "Star Wars",
      videoThumbnail |-> "https://img.youtube.com/vi/abc123/maxresdefault.jpg"]}

\* how supabase.functions.invoke ends: with a functionError (with or without
\* a message), with data (a body or null), or by throwing an Error or
\* something else
InvokeOutcomes ==
    {[kind |-> "functionError", message |-> m, data |-> NoData] :
        m \in {"Edge Function returned a non-2xx status code", ""}}
    \cup {[kind |-> "data", message |-> "", data |-> d] : d \in IdentifyResponses}
    \cup {[kind |-> "null", message |-> "", data |-> NoData]}
    \cup {[kind |-> "throwsError", message |-> m, data |-> NoData] : m \in {"Failed to fetch", ""}}
    \cup {[kind |-> "throwsOther", message |-> "", data |-> NoData]}

\* the catch block and finally
Caught(st, isError, message) ==
    [st EXCEPT !.error = Set(IF isError THEN message ELSE "An unexpected error occurred"),
               !.isLoading = FALSE]

\* handleIdentify after its await
handleIdentifySettled(st, outcome) ==
    IF outcome.kind = "throwsError" THEN Caught(st, TRUE, outcome.message)
    ELSE IF outcome.kind = "throwsOther" THEN Caught(st, FALSE, "")
    ELSE IF outcome.kind = "functionError"
    THEN Caught(st, TRUE, IF outcome.message # "" THEN outcome.message
                          ELSE "Failed to identify movie")
    ELSE IF outcome.kind = "data" /\ outcome.data.error # ""
    THEN [st EXCEPT !.error = Set(outcome.data.error), !.isLoading = FALSE]
    ELSE IF outcome.kind = "data" /\ outcome.data.movie # "" /\ outcome.data.videoThumbnail # ""
    THEN [st EXCEPT !.result = Set(outcome.data), !.isLoading = FALSE]
    ELSE [st EXCEPT !.error = Set("Could not identify the movie from this video. Please try a different clip."),
                    !.isLoading = FALSE]

\* variant of Accepts: the form does not look at isLoading
AcceptsWhileLoading(text, isLoading) == trim(text) # <<>>

\* UrlInput.handleSubmit: url.trim() && !isLoading
Accepts(text, isLoading) == trim(text) # <<>> /\ ~isLoading

\* the page is rendered: nothing loading, no error, no result, an empty input
InitPage ==
    /\ PipelineIdle
    /\ FnIdle
    /\ state = None /\ storage = None /\ now = 0 /\ op = None /\ mounted = None
    /\ index = [isLoading |-> FALSE, error |-> None, result |-> None]
    /\ urlInput = [url |-> <<>>]
    /\ inFlight = <<>>
    /\ submits = 0

\* the user changes the text of the input, which is disabled while loading
TypeUrl ==
    /\ urlInput # None
    /\ ~index.isLoading
    /\ \E text \in UrlTexts : urlInput' = [url |-> text]
    /\ urlInput' # urlInput
    /\ UNCHANGED <<pipelineVars, fnVars, hookVars, index, inFlight, submits>>

\* the form is submitted: handleSubmit, and handleIdentify up to its await
\* when the submit is accepted
Submit ==
    /\ urlInput # None
    /\ submits < MaxSubmits
    /\ submits' = submits + 1
    /\ IF Accepts(urlInput.url, index.isLoading)
       THEN /\ index' = [isLoading |-> TRUE, error |-> None, result |-> None]
            /\ inFlight' = Append(inFlight, trim(urlInput.url))
       ELSE UNCHANGED <<index, inFlight>>
    /\ UNCHANGED <<pipelineVars, fnVars, hookVars, urlInput>>

\* an invocation returns: the rest of handleIdentify runs; UrlInput is
\* rendered only while there is no result
InvokeReturn ==
    /\ \E k \in 1..Len(inFlight), outcome \in InvokeOutcomes :
        /\ index' = handleIdentifySettled(index, outcome)
        /\ inFlight' = SubSeq(inFlight, 1, k - 1) \o SubSeq(inFlight, k + 1, Len(inFlight))
    /\ urlInput' = IF index'.result # None THEN None ELSE urlInput
    /\ UNCHANGED <<pipelineVars, fnVars, hookVars, submits>>

\* "Identify another movie": handleReset; the form is rendered again
HandleReset ==
    /\ index.result # None
    /\ index' = [index EXCEPT !.result = None, !.error = None]
    /\ urlInput' = [url |-> <<>>]
    /\ UNCHANGED <<pipelineVars, fnVars, hookVars, inFlight, submits>>

NextPage ==
    \/ TypeUrl
    \/ Submit
    \/ InvokeReturn
    \/ HandleReset

SpecPage == InitPage /\ [][NextPage]_vars

(***************************************************************************)
(* Properties                                                              *)
(***************************************************************************)
\* positions of the candidates whose resolution returned a movie
Survivors ==
    {k \in 1..Len(moviePromises) :
        moviePromises[k].state = "fulfilled" /\ moviePromises[k].value # None}

\* how many survivors stand at or before position k
RankAmongSurvivors(k) == Cardinality({l \in Survivors : l <= k})

\* the first surviving position
FirstSurvivor == CHOOSE k \in Survivors : \A l \in Survivors : k <= l

\* C1: in a success response, matches lists exactly the candidates whose
\* resolution returned a movie, each at the place its rank among the
\* survivors gives it: the ranker's order is kept, entries are only removed.
C1_MatchesAreOrderedSurvivors ==
    response.status = 200 =>
        /\ Len(response.matches) = Cardinality(Survivors)
        /\ \A k \in Survivors :
            LET m == response.matches[RankAmongSurvivors(k)]
            IN  /\ m.confidence = aiResult.matches[k].confidence
                /\ m.matchReasons = aiResult.matches[k].reasons
                /\ m.movie.tmdbId = FirstSearchResult(aiResult.matches[k].movieTitle)

\* C1 witness: the ranker said [A, B, C], A did not resolve, B and C did
C1_Witness ==
    /\ response.status = 200
    /\ aiResult.matches = <<CandA, CandB, CandC>>
    /\ Survivors = {2, 3}
    /\ Len(response.matches) = 2

\* the request has no usable URL
InputError == UrlMissing(req) \/ ~extractVideoId(req.videoUrl).found

\* the ranker call failed, or its JSON carries no candidate array
RankerError ==
    \/ aiResult.kind = "thrown"
    \/ aiResult.kind = "ok" /\ ~aiResult.hasMatches

\* C2: a fatal error response (400 or 500) is given only for an input error
\* or a ranker error; catalog failures never end the request with an error.
C2_FatalOnlyForInputOrRanker ==
    response.status \in {400, 500} => (InputError \/ RankerError)

\* C3: when there are candidates and every one of them resolved to no
\* match, the answer is the 404 response, its error message contains the
\* first candidate's title and its aiReasoning is the ranker's narrative.
C3_NotFoundCarriesTopGuess ==
    ( /\ pc = "done"
      /\ aiResult.kind = "ok" /\ aiResult.hasMatches /\ aiResult.matches # <<>>
      /\ Len(moviePromises) = Len(aiResult.matches)
      /\ \A k \in 1..Len(moviePromises) : moviePromises[k] = Fulfilled(None) )
    => /\ response.status = 404
       /\ \E j \in 1..Len(response.error) : response.error[j] = aiResult.matches[1].movieTitle
       /\ response.aiReasoning = aiResult.detailedReasoning

\* C3 witness: three candidates, none resolved, the 404 has been sent
C3_Witness ==
    /\ response.status = 404
    /\ Len(aiResult.matches) = 3
    /\ Survivors = {}

NoCalls(eps) == \A ep \in eps : \A a \in CallArgs : calls[ep][a] = 0

\* C4: a request without URL, or with a URL extractVideoId finds no id in,
\* never issues an external call and is answered with status 400.
C4_InputErrorIs400WithoutCalls ==
    InputError =>
        /\ NoCalls(Endpoints)
        /\ pc \in {"start", "done"}
        /\ pc = "done" => response.status = 400

\* C4 witness: an unparseable URL has been answered
C4_Witness ==
    /\ req.videoUrl = UrlOther
    /\ pc = "done"
    /\ response.status = 400

MetadataFields == {"title", "description", "thumbnail", "channelTitle", "publishedAt",
                   "captionsAvailable", "captionsText", "commentKeywords"}

\* the handler is inside getYouTubeMetadata
InMetadata == pc \in {"videos", "captions", "comments", "oembed"}

\* C5: getYouTubeMetadata never throws and always returns a VideoMetadata:
\* while it runs no response exists, once the handler is past it metadata
\* is a complete record, and an error response without metadata can only
\* be one of the two 400 answers given before it was called.
C5_MetadataAlwaysReturned ==
    /\ InMetadata => response = NoResponse /\ metadata = None
    /\ (videoId.found /\ pc \notin {"start"} /\ ~InMetadata) =>
          /\ DOMAIN metadata = MetadataFields
          /\ metadata.captionsAvailable \in BOOLEAN
          /\ metadata.thumbnail.kind \in {"url", "constructed"}
    /\ (response.status = 500) => metadata # None

\* C5 witness: the video lookup and the oEmbed fetch were both issued and the
\* all-empty metadata with the constructed thumbnail came back
C5_Witness ==
    /\ calls["videos"][0] = 1
    /\ calls["oembed"][0] = 1
    /\ metadata # None
    /\ metadata.title = ""
    /\ metadata.thumbnail = ConstructedThumbnail(videoId.id)

\* the AI fetch failed: exception, non-success status, missing content, or
\* content that is not one JSON text once a leading fence is stripped
AIFetchFailed ==
    /\ aiResponse # None
    /\ \/ aiResponse.kind = "throws"
       \/ aiResponse.status # 200
       \/ aiResponse.content = <<>>
       \/ LET c == aiResponse.content
              body == IF c[1].t = "fence" THEN SelectSeq(c, LAMBDA x : x.t # "fence") ELSE c
          IN  ~(Len(body) = 1 /\ body[1].t = "json")

\* C6: when the ranker call fails, the request has ended with an error
\* response and no catalog or enrichment fetch was issued.
C6_RankerFailureStopsPipeline ==
    (AIFetchFailed \/ aiResult.kind = "thrown") =>
        /\ pc = "done"
        /\ response.status = 500
        /\ NoCalls({"search", "details", "providers", "similar"})

\* C6 witness: the model answered with prose around the fenced JSON
C6_Witness ==
    /\ aiResponse # None
    /\ aiResponse.content = <<Prose, FenceOpen, JsonText(FencedValue), FenceClose>>
    /\ response.status = 500

\* C7: 429, 402 and any other non-success status of the AI gateway end in
\* three different error messages, each returned to the caller as it is.
C7_ThreeRankerErrors ==
    (aiResponse # None /\ aiResponse.kind = "response" /\ aiResponse.status # 200) =>
        /\ response.status = 500
        /\ aiResponse.status = 429 =>
              response.error = <<"Rate limit exceeded. Please try again in a moment.">>
        /\ aiResponse.status = 402 =>
              response.error = <<"AI service payment required. Please check your account.">>
        /\ aiResponse.status \notin {429, 402} =>
              response.error = <<"Failed to identify movie with AI">>

\* C7 witness: the gateway answered 402
C7_Witness ==
    /\ aiResponse # None
    /\ aiResponse.kind = "response"
    /\ aiResponse.status = 402
    /\ response.status = 500

\* C8: a success response has at least one match, and its movie is the
\* movie of matches[0], which comes from the first candidate that resolved.
C8_BestIsFirstSurvivor ==
    response.status = 200 =>
        /\ response.matches # <<>>
        /\ Survivors # {}
        /\ response.movie = response.matches[1].movie
        /\ response.movie = moviePromises[FirstSurvivor].value.movie
        /\ response.matches[1].confidence = aiResult.matches[FirstSurvivor].confidence

\* C8 witness: the best match has a lower confidence than a later match
C8_Witness ==
    /\ response.status = 200
    /\ Len(response.matches) >= 2
    /\ response.matches[1].confidence < response.matches[2].confidence
    /\ response.movie.tmdbId # response.matches[2].movie.tmdbId

\* C9: each enrichment fetch is issued at most once, for the catalog id of
\* the first surviving match only, and only when every resolution has
\* completed and at least one candidate survived.
C9_EnrichmentOnceForBestOnly ==
    \A ep \in {"providers", "similar"} :
        /\ \A a \in CallArgs : calls[ep][a] <= 1
        /\ \A a, b \in CallArgs : (calls[ep][a] = 1 /\ calls[ep][b] = 1) => a = b
        /\ \A a \in CallArgs : calls[ep][a] = 1 =>
              /\ \A k \in 1..Len(moviePromises) : moviePromises[k].state = "fulfilled"
              /\ Survivors # {}
              /\ a = moviePromises[FirstSurvivor].value.movie.tmdbId

\* C9 witness: A did not resolve, B and D did, and both fetches went out
\* for B's catalog id
C9_Witness ==
    /\ aiResult # None /\ aiResult.kind = "ok"
    /\ aiResult.matches = <<CandA, CandB, CandD>>
    /\ Survivors = {2, 3}
    /\ calls["providers"][152] = 1
    /\ calls["similar"][152] = 1

\* C10: an enrichment fetch that failed yields the empty list, the other
\* enrichment keeps its own list, and the request is still answered with the
\* success response built from the best match and all matches.
C10_EnrichmentFailsSoft ==
    /\ \A p \in {streamingProviders, similarMovies} :
          (p # None /\ p.state = "fulfilled" /\ ~p.ok) => p.value = <<>>
    /\ (pc = "done" /\ streamingProviders # None) =>
          /\ response.status = 200
          /\ response.streamingProviders = streamingProviders.value
          /\ response.similarMovies = similarMovies.value
          /\ response.movie = allMatches[1].movie
          /\ response.matches = allMatches
          /\ similarMovies.ok => Len(response.similarMovies) = 6
          /\ streamingProviders.ok => response.streamingProviders # <<>>

\* C10 witness: the providers fetch failed, the similar fetch did not
C10_Witness ==
    /\ response.status = 200
    /\ ~streamingProviders.ok
    /\ similarMovies.ok
    /\ response.streamingProviders = <<>>
    /\ response.similarMovies # <<>>

\* how many entries of a provider list have the given type
CountType(list, type) == Cardinality({k \in 1..Len(list) : list[k].type = type})

\* C11: whatever the payload, the list getStreamingProviders returns has at
\* most 6 entries, at most 4 of type subscription and at most 2 of type
\* rent, and no two entries with the same provider name.
C11_ProviderListBounded ==
    providerList # None =>
        LET list == providerList.value
        IN  /\ Len(list) <= 6
            /\ CountType(list, "subscription") <= 4
            /\ CountType(list, "rent") <= 2
            /\ \A k, l \in 1..Len(list) : list[k].name = list[l].name => k = l

\* a payload with more than 4 subscription and more than 2 rent providers,
\* whose fifth subscription provider is also its first rent provider, yields
\* 4 subscription and 2 rent entries
C11_Witness ==
    /\ watchData # None /\ providerList # None
    /\ watchData.results # <<>>
    /\ Len(RegionData(watchData.results).flatrate) > 4
    /\ Len(RegionData(watchData.results).rent) > 2
    /\ RegionData(watchData.results).rent[1].provider_name =
           RegionData(watchData.results).flatrate[5].provider_name
    /\ CountType(providerList.value, "subscription") = 4
    /\ CountType(providerList.value, "rent") = 2
    /\ Len(providerList.value) = 6

\* C12: for every sequence of comments, extractKeywordsFromComments returns
\* at most 10 keywords, and no keyword stands twice in the result.
C12_KeywordsCappedAndDistinct ==
    keywords # None =>
        /\ Len(keywords.value) <= 10
        /\ \A k, l \in 1..Len(keywords.value) :
               keywords.value[k] = keywords.value[l] => k = l

\* comments with 12 different phrase matches, the first of them also a
\* frequent phrase, yield that phrase once and 10 keywords in all
C12_Witness ==
    /\ keywords # None
    /\ comments = <<CommentStarWarsTwice, CommentList>>
    /\ Len(KeywordSet(comments)) = 12
    /\ Len(keywords.value) = 10
    /\ keywords.value[1] = toLowerCase(SubSeq(CommentStarWarsGreat, 1, 9))

\* the text holds one of the link forms somewhere
HoldsLinkForm(text) ==
    \E i \in 1..Len(text), form \in UrlForms : IsPrefixAt(text, i, form)

\* C13: for every identifier X and every supported link form that carries X
\* (watch, short, embed, shorts), with or without a scheme, further
\* parameters or a fragment, extractVideoId returns X; for a string that
\* holds none of the forms, and for one whose form carries no identifier, it
\* returns the not-found signal; every call returns.
C13_ExtractReturnsIdentifier ==
    extracted # None =>
        /\ videoUrl \in Links => extracted.value = Found(videoUrl.id)
        /\ videoUrl \in NonLinks => extracted.value = NotFound
        /\ ~HoldsLinkForm(UrlText(videoUrl)) => extracted.value = NotFound

\* a shorts link with a scheme and further parameters yields its identifier
C13_Witness ==
    /\ extracted # None
    /\ videoUrl \in Links
    /\ videoUrl.form = ShortsPrefix
    /\ videoUrl.pre # <<>>
    /\ videoUrl.suf # <<>>
    /\ extracted.value = Found(videoUrl.id)

\* C14: when every external call returns or throws in the end, every request
\* is answered: the handler produces a response, with status 200, 404, 400
\* or 500, and once it has answered the response never changes, so no
\* request hangs and none is answered twice.
C14_ExactlyOneResponse ==
    /\ <>(response # NoResponse)
    /\ [](response # NoResponse => response.status \in {200, 400, 404, 500})
    /\ [][response # NoResponse => response' = response /\ pc' = "done"]_vars

\* the handler has answered 200 after three candidates were resolved
C14_Witness ==
    /\ response # NoResponse
    /\ response.status = 200
    /\ Len(moviePromises) = 3
    /\ pc = "done"

\* C15: every external call is a single attempt: the ranker is fetched at
\* most once per request, each metadata endpoint at most once, the catalog
\* search and the catalog details at most once per candidate and for no
\* position beyond the candidate list; a call that failed is not issued again.
C15_SingleAttempt ==
    /\ \A ep \in {"videos", "captions", "commentThreads", "oembed", "ai"} :
        /\ calls[ep][0] <= 1
        /\ \A a \in CallArgs \ {0} : calls[ep][a] = 0
    /\ \A ep \in {"search", "details"} :
        \A a \in CallArgs :
            /\ calls[ep][a] <= 1
            /\ calls[ep][a] = 1 => a \in 1..Len(moviePromises)

\* the video lookup failed, the oEmbed fetch failed, the ranker failed: each
\* was fetched once and the request was answered 500
C15_Witness ==
    /\ pc = "done"
    /\ calls["videos"][0] = 1
    /\ calls["oembed"][0] = 1
    /\ oembed = [ok |-> FALSE]
    /\ calls["ai"][0] = 1
    /\ aiResult.kind = "thrown"
    /\ response.status = 500

\* C16: every MovieMatch carries exactly the confidence and the reasons the
\* ranker gave its candidate, values outside 1..100 included: as the value
\* of the candidate's promise, in allMatches and in the response, nothing
\* is clamped, normalized or moved to another match.
C16_ConfidencePassedThrough ==
    /\ \A k \in Survivors :
        /\ moviePromises[k].value.confidence = aiResult.matches[k].confidence
        /\ moviePromises[k].value.matchReasons = aiResult.matches[k].reasons
    /\ \A j \in 1..Len(allMatches) :
        \E k \in Survivors : allMatches[j] = moviePromises[k].value
    /\ response.status = 200 => response.matches = allMatches

\* a 200 response with two matches, one of them with a confidence above 100
C16_Witness ==
    /\ response.status = 200
    /\ Len(response.matches) >= 2
    /\ \E j \in 1..Len(response.matches) :
        /\ response.matches[j].confidence \notin 1..100
        /\ response.matches[j].confidence = CandC.confidence
        /\ response.matches[j].matchReasons = CandC.reasons

\* C17: the catalog resolutions run concurrently: once the candidate list is
\* mapped the search of every candidate has been issued, before the handler
\* waits on Promise.all; and as long as the handler waits, the fetch of a
\* candidate can return whatever state the other candidates are in.
C17_ResolutionsConcurrent ==
    /\ env.TMDB_API_KEY =>
        \A k \in 1..Len(moviePromises) : calls["search"][k] = 1
    /\ (pc = "resolve" /\ ~HandlerReady) =>
        \A k \in 1..Len(moviePromises) :
            /\ moviePromises[k].state = "search" => ENABLED SearchReturn(k)
            /\ moviePromises[k].state = "details" => ENABLED DetailsReturn(k)

\* the searches of three candidates are in flight at the same time
C17_Witness ==
    /\ pc = "resolve"
    /\ Len(moviePromises) = 3
    /\ \A k \in 1..3 : moviePromises[k].state = "search" /\ calls["search"][k] = 1

\* the capitalized phrases of each comment, read on its own
CommentPhrases(list) == [c \in 1..Len(list) |-> capitalizedMatches(list[c], 1)]

\* how often a phrase occurs across all the comments
Occurrences(list, phrase) ==
    LET cp == CommentPhrases(list)
    IN  Cardinality(UNION {{<<c, k>> : k \in {x \in 1..Len(cp[c]) : cp[c][x] = phrase}} :
                           c \in 1..Len(list)})

\* C18: the frequency heuristic puts a lower-cased capitalized phrase into
\* the output exactly when the phrase, not a stoplist word, occurs 2 or more
\* times across all the comments: a phrase that occurs twice is retained
\* when fewer than 10 keywords are produced, and a phrase that occurs once
\* and is no phrase-pattern match is not in the output.
C18_FrequentPhrasesExactly ==
    keywords # None =>
        LET cp == CommentPhrases(comments)
            all == UNION {Range(cp[c]) : c \in 1..Len(comments)}
            kept == Range(keywords.value)
        IN  \A phrase \in all \ commonWords :
                /\ (Occurrences(comments, phrase) >= 2 /\ Len(KeywordSet(comments)) < 10)
                       => toLowerCase(phrase) \in kept
                /\ (Occurrences(comments, phrase) < 2
                        /\ toLowerCase(phrase) \notin Range(PatternKeywords(comments)))
                       => toLowerCase(phrase) \notin kept

\* where the literal "This is from The Matrix" starts in the joined comments
MatrixStarts(list) ==
    {i \in 1..Len(JoinComments(list)) : IsPrefixAt(JoinComments(list), i, CommentMatrix)}

\* some keyword holds "the matrix"
HoldsTheMatrix(list) ==
    \E k \in 1..Len(list) :
        \E i \in 1..Len(list[k]) :
            IsPrefixAt(list[k], i, toLowerCase(SubSeq(CommentMatrix, 14, 23)))

\* one of the triggers of the first pattern, in any letter case, starts
\* before index i of the joined comments
TriggerBefore(list, i) ==
    \E j \in 1..(i - 1), a \in 1..Len(Triggers) :
        IsPrefixAt(toLowerCase(JoinComments(list)), j, Triggers[a])

\* C19 as stated: when the comment text holds "This is from The Matrix"
\* twice, the keyword set holds a variant of "the matrix", that is a
\* keyword in which "the matrix" stands.
C19_MatrixTwiceYieldsVariant ==
    (keywords # None /\ Cardinality(MatrixStarts(comments)) >= 2)
        => HoldsTheMatrix(keywords.value)

\* C19, amended: when the comment text holds "This is from The Matrix" twice
\* and no trigger of the first phrase pattern stands before the first of the
\* two, the keyword set holds a keyword in which "the matrix" stands.
C19_MatrixTwiceWithoutEarlierTrigger ==
    (/\ keywords # None
     /\ Cardinality(MatrixStarts(comments)) >= 2
     /\ ~TriggerBefore(comments, CHOOSE i \in MatrixStarts(comments) :
                                     \A j \in MatrixStarts(comments) : i <= j))
        => HoldsTheMatrix(keywords.value)

\* two comments "This is from The Matrix": the only keyword is the capture
\* that runs from the first "the matrix" to the end of the second comment
C19_Witness ==
    /\ keywords # None
    /\ comments = <<CommentMatrix, CommentMatrix>>
    /\ keywords.value = <<toLowerCase(SubSeq(JoinComments(comments), 14, 47))>>
    /\ HoldsTheMatrix(keywords.value)

\* getYouTubeMetadata has left its primary path: no YouTube key, or the
\* video lookup came back without an item to use
OnFallbackPath ==
    \/ ~env.YOUTUBE_API_KEY
    \/ calls["videos"][0] = 1 /\ pc # "videos" /\ snippet = None

\* C20: metadata obtained on the fallback path (no credential, or the video
\* lookup failed, had no item or threw) was built from the oEmbed answer and
\* has an empty description and publish date, no captions, no keywords and
\* the constructed thumbnail; its title and channel are those of the oEmbed
\* body when that fetch succeeded and empty when it failed; metadata is
\* built from an oEmbed answer on no other path.
C20_FallbackMetadataShape ==
    /\ (metadata # None /\ OnFallbackPath) =>
          /\ oembed # None
          /\ metadata.description = ""
          /\ metadata.publishedAt = ""
          /\ metadata.captionsAvailable = FALSE
          /\ metadata.captionsText = <<>>
          /\ metadata.commentKeywords = <<>>
          /\ metadata.thumbnail = ConstructedThumbnail(videoId.id)
          /\ oembed.ok => /\ metadata.title = oembed.data.title
                          /\ metadata.channelTitle = oembed.data.author_name
          /\ ~oembed.ok => metadata.title = "" /\ metadata.channelTitle = ""
    /\ oembed # None => metadata # None /\ OnFallbackPath

\* C20 witness: a key is configured, the video lookup gave no item, the
\* oEmbed fetch succeeded and its title and author are in the metadata
C20_Witness ==
    /\ env.YOUTUBE_API_KEY
    /\ calls["videos"][0] = 1
    /\ snippet = None
    /\ oembed # None
    /\ oembed.ok
    /\ metadata # None
    /\ metadata.title = "Epic Lightsaber Duel Scene"
    /\ metadata.channelTitle = "Clips"
    /\ metadata.description = ""

\* C21: once the video lookup gave a snippet, the metadata has the title,
\* description, channel, publish date and thumbnail of that snippet and the
\* oEmbed endpoint is never asked, however the captions and comments
\* fetches end; a captions fetch without items gives captionsAvailable
\* false and an empty summary, a comments fetch without items gives an
\* empty keyword list; and in every metadata the summary is empty exactly
\* when captionsAvailable is false.
C21_SecondaryFailuresKeepSnippet ==
    /\ snippet # None => oembed = None /\ calls["oembed"][0] = 0
    /\ (snippet # None /\ metadata # None) =>
          /\ metadata.title = snippet.title
          /\ metadata.description = snippet.description
          /\ metadata.channelTitle = snippet.channelTitle
          /\ metadata.publishedAt = snippet.publishedAt
          /\ metadata.thumbnail = PickThumbnail(snippet.thumbnails, videoId.id)
          /\ captionsResponse # None /\ commentsResponse # None
          /\ ~captionsResponse.ok =>
                metadata.captionsAvailable = FALSE /\ metadata.captionsText = <<>>
          /\ ~commentsResponse.ok => metadata.commentKeywords = <<>>
    /\ metadata # None =>
          (metadata.captionsText = <<>> <=> metadata.captionsAvailable = FALSE)

\* C21 witness: the snippet was obtained, the captions and the comments
\* fetch both failed, and the metadata carries the snippet's title with no
\* captions and no keywords
C21_Witness ==
    /\ snippet # None
    /\ metadata # None
    /\ captionsResponse = [ok |-> FALSE]
    /\ commentsResponse = [ok |-> FALSE]
    /\ metadata.title = snippet.title
    /\ metadata.title # ""
    /\ metadata.captionsAvailable = FALSE
    /\ metadata.commentKeywords = <<>>

\* the place of surviving candidate k among the survivors
SurvivorRank(k) == Cardinality({l \in Survivors : l <= k})

\* C22: the match list has one entry for every candidate that resolved, in
\* candidate order, whatever catalog ids the entries have: two candidates
\* that resolved to the same catalog id are both present, each with its own
\* confidence and reasons, in allMatches and in the matches of the response.
C22_SameIdMatchesKept ==
    (pc = "enrich" \/ response.status = 200) =>
        /\ Len(allMatches) = Cardinality(Survivors)
        /\ \A k \in Survivors :
            /\ allMatches[SurvivorRank(k)] = moviePromises[k].value
            /\ allMatches[SurvivorRank(k)].confidence = aiResult.matches[k].confidence
            /\ allMatches[SurvivorRank(k)].matchReasons = aiResult.matches[k].reasons
        /\ response.status = 200 => response.matches = allMatches

\* C22 witness: a 200 response in which two matches of different candidate
\* titles have the same catalog id and different confidences
C22_Witness ==
    /\ response.status = 200
    /\ \E k, l \in Survivors :
        /\ k < l
        /\ aiResult.matches[k].movieTitle # aiResult.matches[l].movieTitle
        /\ response.matches[SurvivorRank(k)].movie.tmdbId = response.matches[SurvivorRank(l)].movie.tmdbId
        /\ response.matches[SurvivorRank(k)].confidence # response.matches[SurvivorRank(l)].confidence
        /\ response.matches[SurvivorRank(k)].matchReasons # response.matches[SurvivorRank(l)].matchReasons

\* the provider names of a flatrate or rent list
NamesOf(list) == {list[k].provider_name : k \in 1..Len(list)}

\* every entry of list has the link of region and a name taken from the
\* region's flatrate list (subscription) or rent list (rent)
TakenFrom(list, region) ==
    \A j \in 1..Len(list) :
        /\ list[j].link = region.link
        /\ list[j].type = "subscription" => list[j].name \in NamesOf(region.flatrate)
        /\ list[j].type = "rent" => list[j].name \in NamesOf(region.rent)

\* C23: the providers returned are taken from the US entry of the payload
\* whenever it has one, from the first other region only when it has none,
\* and all from that one region: a US entry without providers gives the
\* empty list even when another region has some.
C23_HomeRegionPreferred ==
    (providerList # None /\ watchData.results # <<>>) =>
        LET results == watchData.results
            home == {k \in 1..Len(results) : results[k].region = "US"}
        IN  /\ home # {} => \A k \in home : TakenFrom(providerList.value, results[k])
            /\ home = {} => TakenFrom(providerList.value, results[1])
            /\ \E k \in 1..Len(results) : TakenFrom(providerList.value, results[k])

\* C23 witness: the payload lists GB before US, both with providers, and the
\* list returned is not empty and has the US link throughout
C23_Witness ==
    /\ watchData # None /\ providerList # None
    /\ Len(watchData.results) = 2
    /\ watchData.results[1].region = "GB"
    /\ watchData.results[1].flatrate # <<>>
    /\ watchData.results[2].region = "US"
    /\ watchData.results[1].link # watchData.results[2].link
    /\ Len(providerList.value) >= 2
    /\ \A j \in 1..Len(providerList.value) :
           providerList.value[j].link = watchData.results[2].link

\* the step is a call of the hook's function name (time does not pass
\* during a call)
Called(name) == op' # None /\ op'.name = name /\ now' = now

\* C27: under addToHistory, removeFromHistory and clearHistory the history
\* never has more than 50 entries; a call of addToHistory that adds an
\* entry puts it in front of the former entries, in their order, and only
\* entries from the 50th former entry on are dropped; and no step changes
\* saved or collections.
C27_HistoryCapped ==
    /\ [](Len(state.history) <= 50)
    /\ [][(Called("addToHistory") /\ state'.history # state.history) =>
            /\ state'.history[1].tmdbId = op'.tmdbId
            /\ state'.history[1].savedAt = op'.savedAt
            /\ Len(state'.history) = Min(Len(state.history) + 1, 50)
            /\ \A k \in 2..Len(state'.history) : state'.history[k] = state.history[k - 1]]_vars
    /\ [][state'.saved = state.saved /\ state'.collections = state.collections]_vars

\* C27 witness: a stored history of 49 entries has taken two new entries;
\* it has 50 entries, the oldest stored one is gone, and saved and the
\* collections are those that were stored
C27_Witness ==
    /\ state # None
    /\ Len(state.history) = 50
    /\ state.history[1].tmdbId = 12
    /\ state.history[2].tmdbId = 1
    /\ state.history[50] = StoredHistory(49)[48]
    /\ state.saved = <<StoredSaved(7)>>
    /\ state.collections[1].movieIds = <<SavedId(7)>>

\* C28: a call of addToHistory for a movie of which the history has an
\* entry saved less than 5000 ms before the call leaves the history as it
\* is; no two entries of the history with the same tmdbId have savedAt
\* values less than 5000 apart; and no two entries have the same id.
C28_NoRecentDuplicate ==
    /\ [][(/\ Called("addToHistory")
           /\ \E k \in 1..Len(state.history) :
                /\ state.history[k].tmdbId = op'.tmdbId
                /\ op'.at - state.history[k].savedAt < 5000)
          => state' = state]_vars
    /\ [](\A k, l \in 1..Len(state.history) :
            (k # l /\ state.history[k].tmdbId = state.history[l].tmdbId) =>
                \/ state.history[k].savedAt - state.history[l].savedAt >= 5000
                \/ state.history[l].savedAt - state.history[k].savedAt >= 5000)
    /\ [](\A k, l \in 1..Len(state.history) :
            state.history[k].id = state.history[l].id => k = l)

\* the ids a collection lists
MovieIdsOf(collection) == {collection.movieIds[k] : k \in 1..Len(collection.movieIds)}

\* C25: unsaveMovie(t) leaves the history as it is, removes from saved the
\* entries with tmdbId t and no other, and changes the collections only in
\* that the id of movie t, "saved-t", is no longer listed: every other id a
\* collection listed is still listed.
C25_UnsaveTouchesOneMovie ==
    [][Called("unsaveMovie") =>
        /\ state'.history = state.history
        /\ \A k \in 1..Len(state'.saved) : state'.saved[k].tmdbId # op'.tmdbId
        /\ state'.saved =
              FilterAt(state.saved,
                       {k \in 1..Len(state.saved) : state.saved[k].tmdbId # op'.tmdbId}, 1)
        /\ Len(state'.collections) = Len(state.collections)
        /\ \A c \in 1..Len(state.collections) :
              /\ state'.collections[c].id = state.collections[c].id
              /\ MovieIdsOf(state'.collections[c]) =
                    MovieIdsOf(state.collections[c]) \ {SavedId(op'.tmdbId)}]_vars

\* C26: saved never holds two entries with the same tmdbId; saveMovie for
\* a tmdbId that is saved leaves the state unchanged, and otherwise puts an
\* entry with that tmdbId and the id "saved-<tmdbId>" in front of the
\* former entries; isMovieSaved(t) holds exactly when saved has an entry
\* with tmdbId t.
C26_SavedOncePerMovie ==
    /\ [](\A k, l \in 1..Len(state.saved) :
            state.saved[k].tmdbId = state.saved[l].tmdbId => k = l)
    /\ [][Called("saveMovie") =>
            IF \E k \in 1..Len(state.saved) : state.saved[k].tmdbId = op'.tmdbId
            THEN state' = state
            ELSE /\ Len(state'.saved) = Len(state.saved) + 1
                 /\ state'.saved[1].tmdbId = op'.tmdbId
                 /\ state'.saved[1].id = <<"s", "a", "v", "e", "d", "-">> \o ToDigits(op'.tmdbId)
                 /\ Tail(state'.saved) = state.saved
                 /\ state'.history = state.history
                 /\ state'.collections = state.collections]_vars
    /\ [](\A t \in ShownIds :
            isMovieSaved(state, t) <=> t \in {state.saved[k].tmdbId : k \in 1..Len(state.saved)})

\* C26 witness: movies 1 and 12 were saved on top of a stored one, and the
\* last call, saveMovie for movie 1 again, added nothing
C26_Witness ==
    /\ state # None /\ op # None
    /\ op.name = "saveMovie"
    /\ op.tmdbId = 1
    /\ Len(state.saved) = 3
    /\ state.saved[1].id = <<"s", "a", "v", "e", "d", "-", "1", "2">>
    /\ state.saved[2].tmdbId = 1
    /\ state.saved[3] = StoredSaved(7)
    /\ isMovieSaved(state, 12)

\* the collections whose list of movie ids the step changes
Affected ==
    {c \in 1..Len(state.collections) :
        c > Len(state'.collections) \/ state'.collections[c] # state.collections[c]}

\* C29: the ids of the collections are pairwise distinct, so that
\* deleteCollection removes exactly one collection and addToCollection and
\* removeFromCollection change at most the one collection they name; and no
\* collection lists a movie id twice.
C29_CollectionIdsDistinct ==
    /\ [](\A c, d \in 1..Len(state.collections) :
            state.collections[c].id = state.collections[d].id => c = d)
    /\ [][Called("deleteCollection") =>
            Len(state'.collections) = Len(state.collections) - 1]_vars
    /\ [][(Called("addToCollection") \/ Called("removeFromCollection")) =>
            /\ Len(state'.collections) = Len(state.collections)
            /\ Cardinality(Affected) <= 1]_vars
    /\ [](\A c \in 1..Len(state.collections) :
            \A k, l \in 1..Len(state.collections[c].movieIds) :
                state.collections[c].movieIds[k] = state.collections[c].movieIds[l] => k = l)

\* C24: with several instances of the hook mounted, no write to the store
\* loses an update: a history entry that is stored stays stored unless the
\* step is removeFromHistory of its id or clearHistory, a saved entry stays
\* stored unless the step is unsaveMovie of its tmdbId, and a collection
\* keeps the movie ids it lists unless the step is unsaveMovie.
C24_NoLostUpdate ==
    [][LET old == storage.json
           new == storage'.json
       IN  /\ \A k \in 1..Len(old.history) :
                \/ \E l \in 1..Len(new.history) : new.history[l].id = old.history[k].id
                \/ op'.name = "removeFromHistory" /\ op'.id = old.history[k].id
                \/ op'.name = "clearHistory"
           /\ \A k \in 1..Len(old.saved) :
                \/ \E l \in 1..Len(new.saved) : new.saved[l].tmdbId = old.saved[k].tmdbId
                \/ op'.name = "unsaveMovie" /\ op'.tmdbId = old.saved[k].tmdbId
           /\ \A c \in 1..Len(old.collections) :
                \/ MovieIdsOf(old.collections[c]) \subseteq MovieIdsOf(new.collections[c])
                \/ op'.name = "unsaveMovie"]_vars

\* C30: result and error are never both set; when an invocation returns,
\* whatever its outcome, isLoading is false and exactly one of result and
\* error is set; and at most one invocation is in flight at any time, one
\* being in flight exactly while isLoading is true.
C30_OneOutcomePerIdentify ==
    /\ [](~(index.result # None /\ index.error # None))
    /\ [][Len(inFlight') < Len(inFlight) =>
            /\ index'.isLoading = FALSE
            /\ (index'.result # None) # (index'.error # None)]_vars
    /\ [](Len(inFlight) <= 1)
    /\ [](index.isLoading <=> inFlight # <<>>)

\* C30 witness: a submit was made while an invocation was in flight and was
\* ignored; the text of the input was sent trimmed
C30_Witness ==
    /\ index # None
    /\ index.isLoading
    /\ submits >= 2
    /\ inFlight = <<UrlShort>>
    /\ urlInput = [url |-> <<" ">> \o UrlShort \o <<" ">>]
====
